---- MODULE Spec2Model ----
(***************************************************************************)
(* A model of the nREPL client of crates/nrepl-rs: the bencode scanner and *)
(* decoder (codec.rs), the response model (message.rs), the request-id     *)
(* counter (ops.rs) and the connection/session engine (connection.rs).     *)
(*                                                                         *)
(* Bytes are one-character strings, a buffer is a sequence of bytes; the   *)
(* bytes of the model are the control characters tab, line feed, form      *)
(* feed and carriage return, the printable ASCII characters (without the   *)
(* grave accent, which a string of this language cannot hold) and BYTE_FF, *)
(* the byte 0xff, which is part of no UTF-8 text.                          *)
(* Positions are 0-based as in the Rust source: At(data, pos) is data[pos].*)
(* An Option<T> is a sequence of length 0 (None) or 1 (Some(x)).           *)
(***************************************************************************)
EXTENDS Integers, Sequences, FiniteSets, Bags, TLC

(***************************************************************************)
(* Program constants.                                                      *)
(***************************************************************************)
\* codec.rs:27 MAX_STRING_LENGTH (100 MB in the source), scaled like the limits
\* below and, as in the source, larger than MAX_RESPONSE_SIZE
MAX_STRING_LENGTH == 300
\* connection.rs:1589, the size of temp_buf
TEMP_BUF_SIZE == 4096

(***************************************************************************)
(* The resource limits of connection.rs, as bounds of the model: each is   *)
(* scaled down from the value in the source so that short runs reach it,   *)
(* and keeps the role it has there.                                        *)
(***************************************************************************)
\* connection.rs:57 MAX_RESPONSE_SIZE (10 MB in the source)
MAX_RESPONSE_SIZE == 256
\* connection.rs:61 MAX_INCOMPLETE_READS (1000 in the source)
MAX_INCOMPLETE_READS == 2
\* connection.rs:65 MAX_OUTPUT_ENTRIES (10_000 in the source)
MAX_OUTPUT_ENTRIES == 2
\* connection.rs:69 MAX_OUTPUT_TOTAL_SIZE (10 MB in the source)
MAX_OUTPUT_TOTAL_SIZE == 3

Min(a, b) == IF a < b THEN a ELSE b

None == <<>>
Some(x) == <<x>>

(***************************************************************************)
(* Bytes and strings                                                        *)
(***************************************************************************)
\* The byte 0xff.
BYTE_FF == "0xff"

\* std::str::from_utf8 and String::from_utf8 succeed on the bytes s.
IsUtf8(s) == \A i \in 1..Len(s) : s[i] # BYTE_FF

Digit == {"0", "1", "2", "3", "4", "5", "6", "7", "8", "9"}

DigitVal(b) ==
    CASE b = "0" -> 0 [] b = "1" -> 1 [] b = "2" -> 2 [] b = "3" -> 3
      [] b = "4" -> 4 [] b = "5" -> 5 [] b = "6" -> 6 [] b = "7" -> 7
      [] b = "8" -> 8 [] b = "9" -> 9

DigitChar(d) == <<"0", "1", "2", "3", "4", "5", "6", "7", "8", "9">>[d + 1]

\* The decimal rendering of a natural number (format!("{}", n)).
RECURSIVE ToDigits(_)
ToDigits(n) == IF n < 10 THEN <<DigitChar(n)>>
               ELSE Append(ToDigits(n \div 10), DigitChar(n % 10))

At(data, pos) == data[pos + 1]

\* data[from..to] of the source: bytes from (inclusive) to to (exclusive).
Slice(data, from, to) == SubSeq(data, from + 1, to)

(***************************************************************************)
(* codec.rs: find_bencode_end                                               *)
(***************************************************************************)
\* from_utf8(..).parse::<usize>() on the bytes before ':'.  utf8 is FALSE
\* when from_utf8 fails; ok is FALSE when either fails: parse fails for a
\* byte that is no digit (the first byte is a digit, so no sign is read) or
\* a value above usize::MAX (64 bit).  A value of 10^9 or more is represented
\* by HugeLen: the scanner only compares it with MAX_STRING_LENGTH.
HugeLen == 1000000000

U64MaxDigits == <<"1","8","4","4","6","7","4","4","0","7",
                  "3","7","0","9","5","5","1","6","1","5">>

RECURSIVE StripZeros(_)
StripZeros(ds) == IF Len(ds) > 1 /\ Head(ds) = "0" THEN StripZeros(Tail(ds)) ELSE ds

RECURSIVE DigitsValue(_)
DigitsValue(ds) == IF ds = <<>> THEN 0
                   ELSE 10 * DigitsValue(SubSeq(ds, 1, Len(ds) - 1)) + DigitVal(ds[Len(ds)])

\* a <= b for two digit strings of the same length
RECURSIVE DigitsLeq(_, _)
DigitsLeq(a, b) == IF a = <<>> THEN TRUE
                   ELSE IF DigitVal(Head(a)) < DigitVal(Head(b)) THEN TRUE
                   ELSE IF DigitVal(Head(a)) > DigitVal(Head(b)) THEN FALSE
                   ELSE DigitsLeq(Tail(a), Tail(b))

UsizeOf(ds) ==
    IF Len(ds) <= 9 THEN [ok |-> TRUE, utf8 |-> TRUE, val |-> DigitsValue(ds)]
    ELSE IF Len(ds) < 20 \/ (Len(ds) = 20 /\ DigitsLeq(ds, U64MaxDigits))
         THEN [ok |-> TRUE, utf8 |-> TRUE, val |-> HugeLen]
         ELSE [ok |-> FALSE, utf8 |-> TRUE, val |-> 0]

ParseUsize(len_str) ==
    IF ~IsUtf8(len_str) THEN [ok |-> FALSE, utf8 |-> FALSE, val |-> 0]
    ELSE IF len_str = <<>> \/ \E i \in 1..Len(len_str) : len_str[i] \notin Digit
    THEN [ok |-> FALSE, utf8 |-> TRUE, val |-> 0]
    ELSE UsizeOf(StripZeros(len_str))

\* The first position >= pos at which stop(byte) holds, or Len(data).
RECURSIVE ScanTo(_, _, _)
ScanTo(data, pos, b) ==
    IF pos < Len(data) /\ At(data, pos) # b THEN ScanTo(data, pos + 1, b) ELSE pos

CodecOk(pos) == [ok |-> TRUE, pos |-> pos, msg |-> "", preview |-> FALSE]
\* NReplError::codec (no preview) and NReplError::codec_with_preview
CodecErr(msg, pos) == [ok |-> FALSE, pos |-> pos, msg |-> msg, preview |-> FALSE]
CodecErrPreview(msg, pos) == [ok |-> FALSE, pos |-> pos, msg |-> msg, preview |-> TRUE]

RECURSIVE find_bencode_end(_, _)
RECURSIVE ScanItems(_, _, _)
RECURSIVE ScanValueOf(_, _, _, _)

\* The loop of the 'l' arm (per = 1) and of the 'd' arm (per = 2):
\* while pos < len && data[pos] != 'e' { pos = find_bencode_end(data, pos)?; ... }
\* ScanItems is the loop test; ScanValueOf is the body after a
\* find_bencode_end of it has returned k, with more values left in this pass.
ScanItems(data, pos, per) ==
    IF pos < Len(data) /\ At(data, pos) # "e"
    THEN ScanValueOf(data, find_bencode_end(data, pos), per - 1, per)
    ELSE CodecOk(pos)

ScanValueOf(data, k, more, per) ==
    IF ~k.ok THEN k
    ELSE IF more = 0 THEN ScanItems(data, k.pos, per)
    ELSE ScanValueOf(data, find_bencode_end(data, k.pos), more - 1, per)

\* The 'i' arm after its loop has stopped at pos.
ScanIntEnd(data, pos) ==
    IF pos >= Len(data) THEN CodecErrPreview("Incomplete integer", pos)
    ELSE CodecOk(pos + 1)

\* The 'l' and 'd' arms after their loop has ended with r.
ScanClose(data, r, msg) ==
    IF ~r.ok THEN r
    ELSE IF r.pos >= Len(data) THEN CodecErrPreview(msg, r.pos)
    ELSE CodecOk(r.pos + 1)

\* A string arm that ends the string where the buffer ends.
ScanStrData_clamp(data, pos, len) ==
    IF ~len.utf8 THEN CodecErr("Invalid string length encoding", pos)
    ELSE IF ~len.ok THEN CodecErr("Invalid string length value", pos)
    ELSE IF len.val > MAX_STRING_LENGTH
         THEN CodecErr("String length exceeds maximum allowed size", pos)
    ELSE CodecOk(Min(pos + len.val, Len(data)))

\* A string arm that looks for the data before it checks the length.
ScanStrData_late(data, pos, len) ==
    IF ~len.utf8 THEN CodecErr("Invalid string length encoding", pos)
    ELSE IF ~len.ok THEN CodecErr("Invalid string length value", pos)
    ELSE IF pos + len.val > Len(data)
         THEN CodecErrPreview("Incomplete string data", pos)
    ELSE IF len.val > MAX_STRING_LENGTH
         THEN CodecErr("String length exceeds maximum allowed size", pos)
    ELSE CodecOk(pos + len.val)

\* A string arm that also rejects a length of exactly MAX_STRING_LENGTH.
ScanStrData_strict(data, pos, len) ==
    IF ~len.utf8 THEN CodecErr("Invalid string length encoding", pos)
    ELSE IF ~len.ok THEN CodecErr("Invalid string length value", pos)
    ELSE IF len.val >= MAX_STRING_LENGTH
         THEN CodecErr("String length exceeds maximum allowed size", pos)
    ELSE IF pos + len.val > Len(data)
         THEN CodecErrPreview("Incomplete string data", pos)
    ELSE CodecOk(pos + len.val)

\* The string arm after the length len has been parsed; pos is past the ':'.
ScanStrData(data, pos, len) ==
    IF ~len.utf8 THEN CodecErr("Invalid string length encoding", pos)
    ELSE IF ~len.ok THEN CodecErr("Invalid string length value", pos)
    ELSE IF len.val > MAX_STRING_LENGTH
         THEN CodecErr("String length exceeds maximum allowed size", pos)
    ELSE IF pos + len.val > Len(data)
         THEN CodecErrPreview("Incomplete string data", pos)
    ELSE CodecOk(pos + len.val)

\* The string arm after its loop has stopped at colon.
ScanStr(data, start, colon) ==
    IF colon >= Len(data) THEN CodecErrPreview("Incomplete string length", colon)
    ELSE ScanStrData(data, colon + 1, ParseUsize(Slice(data, start, colon)))

find_bencode_end(data, start) ==
    IF start >= Len(data) THEN CodecErrPreview("Incomplete bencode message", start)
    ELSE CASE At(data, start) = "i" -> ScanIntEnd(data, ScanTo(data, start + 1, "e"))
           [] At(data, start) = "l" ->
                ScanClose(data, ScanItems(data, start + 1, 1), "Incomplete list")
           [] At(data, start) = "d" ->
                ScanClose(data, ScanItems(data, start + 1, 2), "Incomplete dict")
           [] At(data, start) \in Digit -> ScanStr(data, start, ScanTo(data, start, ":"))
           [] OTHER -> CodecErrPreview("Invalid bencode byte", start)

\* The codec errors that mean "the buffer ends before the value does":
\* the messages of codec.rs that start with "Incomplete".
IncompleteMsgs == {"Incomplete bencode message", "Incomplete integer", "Incomplete list",
                   "Incomplete dict", "Incomplete string length", "Incomplete string data"}

(***************************************************************************)
(* codec.rs: decode_response.  serde_bencode::from_bytes::<Response> is     *)
(* modelled by a parser of one bencode value followed by the field rules    *)
(* that #[derive(Deserialize)] gives struct Response (message.rs).          *)
(* A parsed value is a record [t, s, n, items]:                             *)
(*   t = "s": byte string s       t = "i": integer n                        *)
(*   t = "l": list items          t = "d": dict, items = <<[k, v], ...>>    *)
(* A key of a dict is a parsed value; the types that are read decide what   *)
(* a key may be.                                                            *)
(***************************************************************************)
\* An i64 is its sign and the decimal digits of its magnitude, without
\* leading zeros: [neg, mag].
I64(neg, mag) == [neg |-> neg, mag |-> mag]
I64Zero == I64(FALSE, <<"0">>)
I64MaxDigits == <<"9","2","2","3","3","7","2","0","3","6",
                  "8","5","4","7","7","5","8","0","7">>
I64MinDigits == <<"9","2","2","3","3","7","2","0","3","6",
                  "8","5","4","7","7","5","8","0","8">>

VStr(s) == [t |-> "s", s |-> s, n |-> I64Zero, items |-> <<>>]
VInt(n) == [t |-> "i", s |-> <<>>, n |-> n, items |-> <<>>]
VList(items) == [t |-> "l", s |-> <<>>, n |-> I64Zero, items |-> items]
VDict(items) == [t |-> "d", s |-> <<>>, n |-> I64Zero, items |-> items]

ParseOk(val, pos) == [ok |-> TRUE, val |-> val, pos |-> pos]
ParseFail == [ok |-> FALSE, val |-> VInt(I64Zero), pos |-> 0]

\* The i64 of the magnitude m (no leading zeros) with the sign neg: a value
\* outside i64::MIN ..= i64::MAX is an error.
I64Of(neg, m) ==
    IF Len(m) < 19 \/ (Len(m) = 19 /\ DigitsLeq(m, IF neg THEN I64MinDigits ELSE I64MaxDigits))
    THEN [ok |-> TRUE, n |-> I64(neg /\ m # <<"0">>, m)]
    ELSE [ok |-> FALSE, n |-> I64Zero]

\* str::parse::<i64>() after the sign: at least one digit and digits only.
IntOf(neg, ds) ==
    IF ds = <<>> \/ \E i \in 1..Len(ds) : ds[i] \notin Digit
    THEN [ok |-> FALSE, n |-> I64Zero]
    ELSE I64Of(neg, StripZeros(ds))

\* str::parse::<i64>() on the bytes between 'i' and 'e': one '+' or '-' may
\* come first.
ParseIntBody(body) ==
    IF body # <<>> /\ Head(body) = "-" THEN IntOf(TRUE, Tail(body))
    ELSE IF body # <<>> /\ Head(body) = "+" THEN IntOf(FALSE, Tail(body))
    ELSE IntOf(FALSE, body)

RECURSIVE ParseValue(_, _)
RECURSIVE ParseList(_, _, _)
RECURSIVE ParseListItem(_, _, _)
RECURSIVE ParseDict(_, _, _)
RECURSIVE ParseDictKey(_, _, _)
RECURSIVE ParseDictValue(_, _, _, _)

ParseList(data, pos, acc) ==
    IF pos >= Len(data) THEN ParseFail
    ELSE IF At(data, pos) = "e" THEN ParseOk(VList(acc), pos + 1)
    ELSE ParseListItem(data, ParseValue(data, pos), acc)

ParseListItem(data, r, acc) ==
    IF ~r.ok THEN ParseFail ELSE ParseList(data, r.pos, Append(acc, r.val))

ParseDict(data, pos, acc) ==
    IF pos >= Len(data) THEN ParseFail
    ELSE IF At(data, pos) = "e" THEN ParseOk(VDict(acc), pos + 1)
    ELSE ParseDictKey(data, ParseValue(data, pos), acc)

ParseDictKey(data, k, acc) ==
    IF ~k.ok THEN ParseFail
    ELSE ParseDictValue(data, k, ParseValue(data, k.pos), acc)

ParseDictValue(data, k, v, acc) ==
    IF ~v.ok THEN ParseFail
    ELSE ParseDict(data, v.pos, Append(acc, [k |-> k.val, v |-> v.val]))

\* The integer whose body ends at e.
ParseIntAt(e, i) == IF i.ok THEN ParseOk(VInt(i.n), e + 1) ELSE ParseFail

ParseInt(data, pos, e) ==
    IF e >= Len(data) THEN ParseFail
    ELSE ParseIntAt(e, ParseIntBody(Slice(data, pos + 1, e)))

\* The string whose length len ends at colon.
ParseStrData(data, colon, len) ==
    IF ~len.ok \/ colon + 1 + len.val > Len(data) THEN ParseFail
    ELSE ParseOk(VStr(Slice(data, colon + 1, colon + 1 + len.val)), colon + 1 + len.val)

ParseStr(data, pos, colon) ==
    IF colon >= Len(data) THEN ParseFail
    ELSE ParseStrData(data, colon, ParseUsize(Slice(data, pos, colon)))

ParseValue(data, pos) ==
    IF pos >= Len(data) THEN ParseFail
    ELSE CASE At(data, pos) = "i" -> ParseInt(data, pos, ScanTo(data, pos + 1, "e"))
           [] At(data, pos) = "l" -> ParseList(data, pos + 1, <<>>)
           [] At(data, pos) = "d" -> ParseDict(data, pos + 1, <<>>)
           [] At(data, pos) \in Digit -> ParseStr(data, pos, ScanTo(data, pos, ":"))
           [] OTHER -> ParseFail

(***************************************************************************)
(* message.rs: BencodeValue::to_string_repr                                 *)
(***************************************************************************)
Quote == "\""

\* The bytes of the model in the order of their values (0x09, 0x0a, 0x0c,
\* 0x0d, 0x20 to 0x7e, then 0xff), for the key order of a BTreeMap.
Alphabet == <<"\t", "\n", "\f", "\r",
              " ", "!", Quote, "#", "$", "%", "&", "'", "(", ")", "*", "+", ",", "-", ".",
              "/", "0", "1", "2", "3", "4", "5", "6", "7", "8", "9", ":", ";", "<", "=",
              ">", "?", "@", "A", "B", "C", "D", "E", "F", "G", "H", "I", "J", "K", "L",
              "M", "N", "O", "P", "Q", "R", "S", "T", "U", "V", "W", "X", "Y", "Z", "[",
              "\\", "]", "^", "_", "a", "b", "c", "d", "e", "f", "g", "h", "i", "j",
              "k", "l", "m", "n", "o", "p", "q", "r", "s", "t", "u", "v", "w", "x", "y",
              "z", "{", "|", "}", "~", BYTE_FF>>
\* The place of the byte b in that order; only the bytes of the model have
\* one.
Code(b) == CHOOSE i \in 1..Len(Alphabet) : Alphabet[i] = b

RECURSIVE StrLess(_, _)
StrLess(a, b) == IF b = <<>> THEN FALSE
                 ELSE IF a = <<>> THEN TRUE
                 ELSE IF Code(Head(a)) < Code(Head(b)) THEN TRUE
                 ELSE IF Code(Head(a)) > Code(Head(b)) THEN FALSE
                 ELSE StrLess(Tail(a), Tail(b))

\* BTreeMap<String, _>::from the pairs of a dict: a later pair replaces an
\* earlier one with the same key, and iteration is in key order.
RECURSIVE BTreeInsert(_, _)
BTreeInsert(m, kv) ==
    IF m = <<>> THEN <<kv>>
    ELSE IF Head(m).k = kv.k THEN <<kv>> \o Tail(m)
    ELSE IF StrLess(kv.k, Head(m).k) THEN <<kv>> \o m
    ELSE <<Head(m)>> \o BTreeInsert(Tail(m), kv)

RECURSIVE BTreeFrom(_, _)
BTreeFrom(pairs, m) == IF pairs = <<>> THEN m
                       ELSE BTreeFrom(Tail(pairs), BTreeInsert(m, Head(pairs)))

\* items.join(", ")
RECURSIVE Join(_)
Join(items) == IF items = <<>> THEN <<>>
               ELSE IF Len(items) = 1 THEN Head(items)
               ELSE Head(items) \o <<",", " ">> \o Join(Tail(items))

IntRepr(n) == IF n < 0 THEN <<"-">> \o ToDigits(0 - n) ELSE ToDigits(n)

\* i64::to_string
I64Repr(n) == IF n.neg THEN <<"-">> \o n.mag ELSE n.mag

\* A String read from bytes: String::from_utf8 succeeds.
IsKey(k) == k.t = "s" /\ IsUtf8(k.s)

\* The untagged enum BencodeValue accepts v: a String, an i64, a list of
\* BencodeValue or a dict of String keys and BencodeValue.
RECURSIVE IsBencodeValue(_)
IsBencodeValue(v) ==
    CASE v.t = "s" -> IsUtf8(v.s)
      [] v.t = "i" -> TRUE
      [] v.t = "l" -> \A i \in 1..Len(v.items) : IsBencodeValue(v.items[i])
      [] v.t = "d" -> \A i \in 1..Len(v.items) :
                         IsKey(v.items[i].k) /\ IsBencodeValue(v.items[i].v)

\* The (key, value) pairs of a dict whose keys are Strings.
DictPairs(items) == [i \in 1..Len(items) |-> [k |-> items[i].k.s, v |-> items[i].v]]

RECURSIVE to_string_repr(_)
RECURSIVE ReprItems(_)
RECURSIVE ReprPairs(_)
ReprItems(items) == IF items = <<>> THEN <<>>
                    ELSE <<to_string_repr(Head(items))>> \o ReprItems(Tail(items))
ReprPairs(m) == IF m = <<>> THEN <<>>
                ELSE <<Head(m).k \o <<":", " ">> \o to_string_repr(Head(m).v)>>
                     \o ReprPairs(Tail(m))
to_string_repr(v) ==
    CASE v.t = "s" ->
           IF Len(v.s) >= 2 /\ Head(v.s) = Quote /\ v.s[Len(v.s)] = Quote
           THEN SubSeq(v.s, 2, Len(v.s) - 1)
           ELSE v.s
      [] v.t = "i" -> I64Repr(v.n)
      [] v.t = "l" -> <<"[">> \o Join(ReprItems(v.items)) \o <<"]">>
      [] v.t = "d" -> <<"{">> \o Join(ReprPairs(BTreeFrom(DictPairs(v.items), <<>>)))
                      \o <<"}">>

(***************************************************************************)
(* message.rs: struct Response, as serde deserializes it from a dict        *)
(***************************************************************************)
K_id == <<"i", "d">>
K_session == <<"s", "e", "s", "s", "i", "o", "n">>
K_status == <<"s", "t", "a", "t", "u", "s">>
K_value == <<"v", "a", "l", "u", "e">>
K_out == <<"o", "u", "t">>
K_err == <<"e", "r", "r">>
K_ns == <<"n", "s">>
K_new_session == <<"n", "e", "w", "-", "s", "e", "s", "s", "i", "o", "n">>
K_sessions == <<"s", "e", "s", "s", "i", "o", "n", "s">>
S_done == <<"d", "o", "n", "e">>

K_completions == <<"c", "o", "m", "p", "l", "e", "t", "i", "o", "n", "s">>
K_ops == <<"o", "p", "s">>
K_versions == <<"v", "e", "r", "s", "i", "o", "n", "s">>
K_aux == <<"a", "u", "x">>
K_info == <<"i", "n", "f", "o">>
K_middleware == <<"m", "i", "d", "d", "l", "e", "w", "a", "r", "e">>
K_unresolved_middleware == <<"u", "n", "r", "e", "s", "o", "l", "v", "e", "d", "-">>
                           \o K_middleware
K_candidate == <<"c", "a", "n", "d", "i", "d", "a", "t", "e">>
K_type == <<"t", "y", "p", "e">>

\* The fields of Response in the order of the declaration.
ResponseFields == <<"id", "session", "status", "value", "out", "err", "ns", "new_session",
                    "sessions", "completions", "ops", "versions", "aux", "info",
                    "middleware", "unresolved_middleware">>
\* #[serde(default)]
DefaultFields == {"session", "status", "value", "ops", "versions", "aux", "info"}
StringFields == {"id", "session", "out", "err", "ns", "new_session"}
StrListFields == {"status", "sessions", "middleware", "unresolved_middleware"}

\* The fields of a Response before any key has been seen; id has no default.
EmptyResponse == [id |-> None, session |-> None, status |-> None, value |-> None,
                  out |-> None, err |-> None, ns |-> None, new_session |-> None,
                  sessions |-> None, completions |-> None, ops |-> None,
                  versions |-> None, aux |-> None, info |-> None, middleware |-> None,
                  unresolved_middleware |-> None]

IsStrList(v) == v.t = "l" /\ \A i \in 1..Len(v.items) : IsKey(v.items[i])
StrList(v) == [i \in 1..Len(v.items) |-> v.items[i].s]

\* BTreeMap<String, BencodeValue> accepts v; deserialize_aux_map gives the
\* map of the to_string_repr of its values.
IsValueMap(v) ==
    v.t = "d" /\ \A i \in 1..Len(v.items) :
                    IsKey(v.items[i].k) /\ IsBencodeValue(v.items[i].v)
StringMapOf(v) ==
    BTreeFrom([i \in 1..Len(v.items) |->
                  [k |-> v.items[i].k.s, v |-> to_string_repr(v.items[i].v)]], <<>>)

\* BTreeMap<String, BTreeMap<String, BencodeValue>> accepts v;
\* deserialize_nested_map converts the inner maps.
IsNestedMap(v) ==
    v.t = "d" /\ \A i \in 1..Len(v.items) : IsKey(v.items[i].k) /\ IsValueMap(v.items[i].v)
NestedMapOf(v) ==
    BTreeFrom([i \in 1..Len(v.items) |->
                  [k |-> v.items[i].k.s, v |-> StringMapOf(v.items[i].v)]], <<>>)

\* The field of Response that a key of the dict names, "" for any other key.
FieldOf(k) ==
    CASE k = K_id -> "id" [] k = K_session -> "session"
      [] k = K_status -> "status" [] k = K_value -> "value"
      [] k = K_out -> "out" [] k = K_err -> "err" [] k = K_ns -> "ns"
      [] k = K_new_session -> "new_session" [] k = K_sessions -> "sessions"
      [] k = K_completions -> "completions" [] k = K_ops -> "ops"
      [] k = K_versions -> "versions" [] k = K_aux -> "aux" [] k = K_info -> "info"
      [] k = K_middleware -> "middleware"
      [] k = K_unresolved_middleware -> "unresolved_middleware"
      [] OTHER -> ""

Good(val) == [ok |-> TRUE, val |-> val]
Bad == [ok |-> FALSE, val |-> <<>>]

\* The value of field f (every field but completions) read from the parsed
\* value v: Bad when v has not the type of the field.
\*   value: deserialize_value; info: deserialize_info_map (None for a value
\*   that is no dict); aux: deserialize_aux_map; ops, versions:
\*   deserialize_nested_map.
FieldValue(f, v) ==
    IF f \in StringFields THEN (IF IsKey(v) THEN Good(v.s) ELSE Bad)
    ELSE IF f \in StrListFields THEN (IF IsStrList(v) THEN Good(StrList(v)) ELSE Bad)
    ELSE IF f = "value" THEN (IF IsBencodeValue(v) THEN Good(to_string_repr(v)) ELSE Bad)
    ELSE IF f = "info"
         THEN (IF ~IsBencodeValue(v) THEN Bad
               ELSE IF v.t = "d" THEN Good(Some(StringMapOf(v))) ELSE Good(None))
    ELSE IF f = "aux" THEN (IF IsValueMap(v) THEN Good(StringMapOf(v)) ELSE Bad)
    ELSE (IF IsNestedMap(v) THEN Good(NestedMapOf(v)) ELSE Bad)

(***************************************************************************)
(* serde_bencode reads a struct as it goes through the bytes: a dict gives  *)
(* the fields by their keys (visit_map), a list gives them by position      *)
(* (visit_seq).  A read returns [ok, val, pos], pos being where the next    *)
(* read starts.                                                             *)
(***************************************************************************)
DeOk(val, pos) == [ok |-> TRUE, val |-> val, pos |-> pos]
DeFail == [ok |-> FALSE, val |-> <<>>, pos |-> 0]

\* Deserializer::parse: the kind of the token that starts at pos.
TokenKind(data, pos) ==
    IF pos >= Len(data) THEN "err"
    ELSE CASE At(data, pos) = "l" -> "list"
           [] At(data, pos) = "d" -> "map"
           [] At(data, pos) = "e" -> "end"
           [] At(data, pos) = "i" -> "int"
           [] At(data, pos) \in Digit -> "bytes"
           [] OTHER -> "err"

\* message.rs: struct CompletionCandidate.
CandFields == <<"candidate", "ns", "type">>
EmptyCandidate == [candidate |-> None, ns |-> None, type |-> None]
CandFieldOf(k) ==
    CASE k = K_candidate -> "candidate" [] k = K_ns -> "ns" [] k = K_type -> "type"
      [] OTHER -> ""
\* candidate is a String, ns and type are Options.
CandOf(c) == [c EXCEPT !.candidate = c.candidate[1]]

RECURSIVE CandFromMap(_, _, _)
RECURSIVE CandKey(_, _, _)
RECURSIVE CandValue(_, _, _, _)
RECURSIVE CandFromSeq(_, _, _, _)
RECURSIVE CandElement(_, _, _, _)

\* visit_map of CompletionCandidate: keys until the 'e' of the dict.
CandFromMap(data, pos, c) ==
    CASE TokenKind(data, pos) = "end" ->
           IF c.candidate = None THEN DeFail ELSE DeOk(CandOf(c), pos + 1)
      [] TokenKind(data, pos) = "bytes" -> CandKey(data, ParseValue(data, pos), c)
      [] OTHER -> DeFail

CandKey(data, k, c) ==
    IF ~k.ok THEN DeFail
    ELSE CandValue(data, CandFieldOf(k.val.s), ParseValue(data, k.pos), c)

\* A key seen before is an error (duplicate field), a key that names no
\* field has its value ignored.
CandValue(data, f, v, c) ==
    IF f # "" /\ c[f] # None THEN DeFail
    ELSE IF ~v.ok THEN DeFail
    ELSE IF f = "" THEN CandFromMap(data, v.pos, c)
    ELSE IF IsKey(v.val) THEN CandFromMap(data, v.pos, [c EXCEPT ![f] = Some(v.val.s)])
    ELSE DeFail

\* visit_seq of CompletionCandidate: field i is the next element.  When the
\* list has ended, candidate is an error and ns and type take their default;
\* each of them reads one more token, and the 'e' of a list of three or more
\* elements is not read.
CandFromSeq(data, pos, i, c) ==
    IF i > Len(CandFields) THEN DeOk(CandOf(c), pos)
    ELSE CASE TokenKind(data, pos) = "end" ->
                IF i = 1 THEN DeFail ELSE CandFromSeq(data, pos + 1, i + 1, c)
           [] TokenKind(data, pos) = "err" -> DeFail
           [] OTHER -> CandElement(data, ParseValue(data, pos), i, c)

CandElement(data, v, i, c) ==
    IF v.ok /\ IsKey(v.val)
    THEN CandFromSeq(data, v.pos, i + 1, [c EXCEPT ![CandFields[i]] = Some(v.val.s)])
    ELSE DeFail

DeCandidate(data, pos) ==
    CASE TokenKind(data, pos) = "map" -> CandFromMap(data, pos + 1, EmptyCandidate)
      [] TokenKind(data, pos) = "list" -> CandFromSeq(data, pos + 1, 1, EmptyCandidate)
      [] OTHER -> DeFail

\* Vec<CompletionCandidate>: elements until a token 'e'.
RECURSIVE DeCandidates(_, _, _)
RECURSIVE DeCandidatesNext(_, _, _)
DeCandidates(data, pos, acc) ==
    CASE TokenKind(data, pos) = "end" -> DeOk(acc, pos + 1)
      [] TokenKind(data, pos) = "err" -> DeFail
      [] OTHER -> DeCandidatesNext(data, DeCandidate(data, pos), acc)

DeCandidatesNext(data, c, acc) ==
    IF c.ok THEN DeCandidates(data, c.pos, Append(acc, c.val)) ELSE DeFail

DeCompletions(data, pos) ==
    IF TokenKind(data, pos) = "list" THEN DeCandidates(data, pos + 1, <<>>) ELSE DeFail

\* The value of field f read at pos.
FieldAt(x, pos) == IF x.ok THEN DeOk(x.val, pos) ELSE DeFail
FieldOfValue(f, v) == IF ~v.ok THEN DeFail ELSE FieldAt(FieldValue(f, v.val), v.pos)
DeField(data, pos, f) ==
    IF f = "completions" THEN DeCompletions(data, pos)
    ELSE FieldOfValue(f, ParseValue(data, pos))

RECURSIVE SetFields(_, _, _)
RECURSIVE SetField(_, _, _)
RECURSIVE SetFieldAs(_, _, _, _)
RECURSIVE SkipValue(_, _, _)
RECURSIVE SetFieldTo(_, _, _, _)
RECURSIVE SeqFields(_, _, _, _)
RECURSIVE SeqField(_, _, _, _)

\* visit_map of Response: keys until the 'e' of the dict.  A key that is no
\* byte string is an error.
SetFields(data, pos, resp) ==
    CASE TokenKind(data, pos) = "end" -> DeOk(resp, pos + 1)
      [] TokenKind(data, pos) = "bytes" -> SetField(data, ParseValue(data, pos), resp)
      [] OTHER -> DeFail

SetField(data, k, resp) ==
    IF ~k.ok THEN DeFail ELSE SetFieldAs(data, k.pos, FieldOf(k.val.s), resp)

\* One (key, value) pair of the dict: a known key sets its field (an error if
\* the field is set already or the value has the wrong type), the value of
\* any other key is read and ignored.
SetFieldAs(data, pos, f, resp) ==
    IF f = "" THEN SkipValue(data, ParseValue(data, pos), resp)
    ELSE IF resp[f] # None THEN DeFail
    ELSE SetFieldTo(data, f, DeField(data, pos, f), resp)

SkipValue(data, v, resp) == IF v.ok THEN SetFields(data, v.pos, resp) ELSE DeFail

SetFieldTo(data, f, x, resp) ==
    IF x.ok THEN SetFields(data, x.pos, [resp EXCEPT ![f] = Some(x.val)]) ELSE DeFail

\* visit_seq of Response: field i is the next element.  When the list has
\* ended, a field with #[serde(default)] takes its default and any other is
\* an error; the elements after the last field are not read.
SeqFields(data, pos, i, resp) ==
    IF i > Len(ResponseFields) THEN DeOk(resp, pos)
    ELSE CASE TokenKind(data, pos) = "end" ->
                IF ResponseFields[i] \in DefaultFields
                THEN SeqFields(data, pos + 1, i + 1, resp)
                ELSE DeFail
           [] TokenKind(data, pos) = "err" -> DeFail
           [] OTHER -> SeqField(data, i, DeField(data, pos, ResponseFields[i]), resp)

SeqField(data, i, x, resp) ==
    IF x.ok THEN SeqFields(data, x.pos, i + 1, [resp EXCEPT ![ResponseFields[i]] = Some(x.val)])
    ELSE DeFail

\* The Response of the fields read: id is present; session and status
\* default to empty; info is the Option that deserialize_info_map gave.
ResponseOfFields(r) ==
    IF ~r.ok THEN [ok |-> FALSE, resp |-> EmptyResponse]
    ELSE IF r.val.id = None THEN [ok |-> FALSE, resp |-> EmptyResponse]
    ELSE [ok |-> TRUE,
          resp |-> [r.val EXCEPT
                      !.id = r.val.id[1],
                      !.session = IF r.val.session = None THEN <<>>
                                  ELSE r.val.session[1],
                      !.status = IF r.val.status = None THEN <<>>
                                 ELSE r.val.status[1],
                      !.info = IF r.val.info = None THEN None ELSE r.val.info[1]]]

\* serde_bencode::from_bytes::<Response>(bytes): the bytes after the value
\* that was read are not looked at.
ResponseFromBytes(bytes) ==
    CASE TokenKind(bytes, 0) = "map" -> ResponseOfFields(SetFields(bytes, 1, EmptyResponse))
      [] TokenKind(bytes, 0) = "list" ->
           ResponseOfFields(SeqFields(bytes, 1, 1, EmptyResponse))
      [] OTHER -> [ok |-> FALSE, resp |-> EmptyResponse]

\* decode_response after serde_bencode::from_bytes has returned r.
DecodedAs(e, r) ==
    IF ~r.ok THEN [ok |-> FALSE, resp |-> EmptyResponse, consumed |-> 0,
                   err |-> CodecErrPreview("serde_bencode error", 0)]
    ELSE [ok |-> TRUE, resp |-> r.resp, consumed |-> e.pos, err |-> CodecOk(e.pos)]

\* A decoder that reports the whole buffer as consumed.
DecodeTo_all(data, e) ==
    IF ~e.ok THEN [ok |-> FALSE, resp |-> EmptyResponse, consumed |-> 0, err |-> e]
    ELSE DecodedAs([e EXCEPT !.pos = Len(data)], ResponseFromBytes(Slice(data, 0, e.pos)))

\* decode_response after find_bencode_end(data, 0) has returned e.
DecodeTo(data, e) ==
    IF ~e.ok THEN [ok |-> FALSE, resp |-> EmptyResponse, consumed |-> 0, err |-> e]
    ELSE DecodedAs(e, ResponseFromBytes(Slice(data, 0, e.pos)))

\* codec.rs: decode_response.  [ok, resp, consumed, err]
decode_response(data) == DecodeTo(data, find_bencode_end(data, 0))

(***************************************************************************)
(* The peer's encoding of a response: a bencode dict of the present fields. *)
(***************************************************************************)
BStr(str) == ToDigits(Len(str)) \o <<":">> \o str

RECURSIVE BStrs(_)
BStrs(strs) == IF strs = <<>> THEN <<>> ELSE BStr(Head(strs)) \o BStrs(Tail(strs))

BList(strs) == <<"l">> \o BStrs(strs) \o <<"e">>

\* A wire message [id, out, err, value, ns, new_session, status]: value is
\* raw bencode (it may be a string, an integer, a list or a dict), the other
\* optional fields are strings, status is a list that is left out when empty.
EncodeMsg(m) ==
    <<"d">>
    \o (IF m.err = None THEN <<>> ELSE BStr(K_err) \o BStr(m.err[1]))
    \o BStr(K_id) \o BStr(m.id)
    \o (IF m.new_session = None THEN <<>> ELSE BStr(K_new_session) \o BStr(m.new_session[1]))
    \o (IF m.ns = None THEN <<>> ELSE BStr(K_ns) \o BStr(m.ns[1]))
    \o (IF m.out = None THEN <<>> ELSE BStr(K_out) \o BStr(m.out[1]))
    \o (IF m.status = <<>> THEN <<>> ELSE BStr(K_status) \o BList(m.status))
    \o (IF m.value = None THEN <<>> ELSE BStr(K_value) \o m.value[1])
    \o <<"e">>

(***************************************************************************)
(* message.rs: struct Request, and codec.rs: encode_request.                *)
(* serde_bencode::to_bytes writes a struct as a dict of the fields that are *)
(* not skipped, in the byte order of their keys: a String as <len>:<bytes>, *)
(* an i64 as i<n>e, a bool as i1e or i0e, a Vec<String> as a list.          *)
(***************************************************************************)
\* The fields of Request in the order of the declaration.  op and id are
\* Strings, the others Options.
RequestFields == <<"op", "id", "session", "code", "line", "column", "file", "file_path",
                   "file_name", "interrupt_id", "stdin", "verbose", "prefix",
                   "complete_fn", "ns", "options", "sym", "lookup_fn", "middleware",
                   "extra_namespaces">>

\* The key of a field: its name, or the name #[serde(rename)] gives it.
KeyOf(f) ==
    CASE f = "op" -> <<"o", "p">>
      [] f = "id" -> <<"i", "d">>
      [] f = "session" -> <<"s", "e", "s", "s", "i", "o", "n">>
      [] f = "code" -> <<"c", "o", "d", "e">>
      [] f = "line" -> <<"l", "i", "n", "e">>
      [] f = "column" -> <<"c", "o", "l", "u", "m", "n">>
      [] f = "file" -> <<"f", "i", "l", "e">>
      [] f = "file_path" -> <<"f", "i", "l", "e", "-", "p", "a", "t", "h">>
      [] f = "file_name" -> <<"f", "i", "l", "e", "-", "n", "a", "m", "e">>
      [] f = "interrupt_id" -> <<"i", "n", "t", "e", "r", "r", "u", "p", "t", "-", "i", "d">>
      [] f = "stdin" -> <<"s", "t", "d", "i", "n">>
      [] f = "verbose" -> <<"v", "e", "r", "b", "o", "s", "e">>
      [] f = "prefix" -> <<"p", "r", "e", "f", "i", "x">>
      [] f = "complete_fn" -> <<"c", "o", "m", "p", "l", "e", "t", "e", "-", "f", "n">>
      [] f = "ns" -> <<"n", "s">>
      [] f = "options" -> <<"o", "p", "t", "i", "o", "n", "s">>
      [] f = "sym" -> <<"s", "y", "m">>
      [] f = "lookup_fn" -> <<"l", "o", "o", "k", "u", "p", "-", "f", "n">>
      [] f = "middleware" -> <<"m", "i", "d", "d", "l", "e", "w", "a", "r", "e">>
      [] f = "extra_namespaces" -> <<"e", "x", "t", "r", "a", "-", "n", "a", "m", "e", "s",
                                    "p", "a", "c", "e", "s">>

IntFields == {"line", "column"}
BoolFields == {"verbose"}
ListFields == {"middleware", "extra_namespaces"}

\* ops.rs: base_request: every optional field is None.
base_request(op, id) ==
    [f \in {RequestFields[i] : i \in 1..Len(RequestFields)} |->
        IF f = "op" THEN op ELSE IF f = "id" THEN id ELSE None]

\* The bencode of the value x of field f.
EncodeValue(f, x) ==
    IF f \in IntFields THEN <<"i">> \o IntRepr(x) \o <<"e">>
    ELSE IF f \in BoolFields THEN (IF x THEN <<"i", "1", "e">> ELSE <<"i", "0", "e">>)
    ELSE IF f \in ListFields THEN BList(x)
    ELSE BStr(x)

\* skip_serializing_if = "Option::is_none"
Skipped(request, f) == f \notin {"op", "id"} /\ request[f] = None

\* The (key, value) pairs that the serializer is given, from field i on.
RECURSIVE Entries(_, _)
Entries(request, i) ==
    IF i > Len(RequestFields) THEN <<>>
    ELSE LET f == RequestFields[i] IN
         (IF Skipped(request, f) THEN <<>>
          ELSE <<[k |-> KeyOf(f),
                  v |-> EncodeValue(f, IF f \in {"op", "id"} THEN request[f]
                                                             ELSE request[f][1])]>>)
         \o Entries(request, i + 1)

RECURSIVE EncodePairs(_)
EncodePairs(m) == IF m = <<>> THEN <<>>
                  ELSE BStr(Head(m).k) \o Head(m).v \o EncodePairs(Tail(m))

\* codec.rs: encode_request
encode_request(request) ==
    <<"d">> \o EncodePairs(BTreeFrom(Entries(request, 1), <<>>)) \o <<"e">>

(***************************************************************************)
(* The connection engine (connection.rs) and its environment.               *)
(***************************************************************************)
\* Bounds of the model
MaxRequests == 2      \* requests the connection writes in one behaviour
MaxMsgs == 2          \* messages the peer writes in one behaviour

VARIABLES
    REQUEST_ID_COUNTER,     \* ops.rs: the static counter of request ids
    sessions,               \* NReplClient.sessions: the ids of the tracked sessions
    buffer,                 \* NReplClient.buffer
    incomplete_read_count,  \* NReplClient.incomplete_read_count
    timed_out_ids,          \* NReplClient.timed_out_ids
    stream,                 \* NReplClient.stream: "open" or "shutdown"
    sent,                   \* the ids of the requests written to the socket, in order
    fragments,              \* the ids of the requests whose write was cut short: a
                            \* part of their bytes, possibly none, is on the socket
    wire,                   \* bytes the peer has written and the client has not read
    peer_closed,            \* the peer has closed its end of the connection
    nmsgs,                  \* messages the peer has written so far
    pc,                     \* "idle": no call in progress; "write": a call is
                            \* suspended in stream.write_all() or flush(); "read":
                            \* a call is suspended in stream.read(); "closed":
                            \* after shutdown
    cur,                    \* the call in progress, or the last call
    acc,                    \* result and total_output_size of the accumulation loop
    rx,                     \* the responses read_response has returned to the call
    result,                 \* what the last call returned; NoResult while a call is
                            \* in progress
    \* steel-nrepl: the registry, and the worker of the connection FOCUS
    connections,            \* registry.rs: the keys of Registry.connections
    next_conn_id,           \* registry.rs: Registry.next_conn_id
    workers_spawned,        \* the number of calls of Worker::new so far
    entry_sessions,         \* ConnectionEntry.sessions: pairs of SessionId and Session
    next_session_id,        \* ConnectionEntry.next_session_id
    next_request_id,        \* Worker.next_request_id
    pending_responses,      \* Worker.pending_responses
    commands,               \* the channel command_tx -> command_rx
    responses,              \* the channel response_tx -> response_rx
    worker,                 \* the worker thread: "none", "running" or "exited"
    wcmd,                   \* the command the worker thread is executing
    caller,                 \* the call that holds the registry's lock while it
                            \* waits: a *_blocking function or create_and_connect
    threads,                \* the calls of the FFI layer that are between two
                            \* acquisitions of the registry's lock, a bag: one
                            \* copy for every thread
    reply,                  \* the one-shot channel of the call that waits
    collected,              \* the request ids whose response try_recv_response returned
    ffi_result,             \* what the last call of the FFI layer returned
    \* codec.rs called on its own, as its tests call it
    input,                  \* what the codec is given: a Request, or byte strings
    data,                   \* the bytes given to find_bencode_end or decode_response
    scan_out,               \* the results of find_bencode_end(data, 0), in order
    decode_out              \* the results of the calls of decode_response, in order

ffi_vars == <<connections, next_conn_id, workers_spawned, entry_sessions, next_session_id,
              next_request_id, pending_responses, commands, responses, worker, wcmd,
              caller, threads, reply, collected, ffi_result>>

codec_vars == <<input, data, scan_out, decode_out>>

vars == <<REQUEST_ID_COUNTER, sessions, buffer, incomplete_read_count, timed_out_ids,
          stream, sent, fragments, wire, peer_closed, nmsgs, pc, cur, acc, rx, result,
          connections, next_conn_id, workers_spawned, entry_sessions, next_session_id,
          next_request_id, pending_responses, commands, responses, worker, wcmd,
          caller, threads, reply, collected, ffi_result, input, data, scan_out,
          decode_out>>

\* The client's side of the state, as one record that the code below threads
\* through a call.
Client == [counter |-> REQUEST_ID_COUNTER, sessions |-> sessions, buffer |-> buffer,
           irc |-> incomplete_read_count, tids |-> timed_out_ids, stream |-> stream,
           sent |-> sent, frag |-> fragments, pc |-> pc, cur |-> cur, acc |-> acc,
           rx |-> rx,
           result |-> result]

SetClient(c) ==
    /\ REQUEST_ID_COUNTER' = c.counter
    /\ sessions' = c.sessions
    /\ buffer' = c.buffer
    /\ incomplete_read_count' = c.irc
    /\ timed_out_ids' = c.tids
    /\ stream' = c.stream
    /\ sent' = c.sent
    /\ fragments' = c.frag
    /\ pc' = c.pc
    /\ cur' = c.cur
    /\ acc' = c.acc
    /\ rx' = c.rx
    /\ result' = c.result

\* Session ids: the peer issues S1; S2 is an id it never issues (another
\* client's session, or a made-up one).
S1 == <<"s", "1">>
S2 == <<"s", "2">>
IssuedIds == {S1}
CallerSessions == {S1, S2}

\* ops.rs: next_request_id, format!("req-{}", id)
ReqId(n) == <<"r", "e", "q", "-">> \o ToDigits(n)

\* message.rs: EvalResult::new(), with total_output_size of the loop
EvalResultNew == [value |-> None, output |-> <<>>, error |-> <<>>, ns |-> None]
AccNew == [result |-> EvalResultNew, total_output_size |-> 0]

\* The call in progress, or the last one: after is the outcome of the call
\* that came before it.
NoCall == [op |-> "", session |-> <<>>, id |-> <<>>, deadline |-> FALSE, todo |-> <<>>,
           after |-> "None"]

\* What a call returned.  kind is "Ok" or the variant of NReplError; msg is the
\* operation of a Timeout or the message of a Protocol error; used holds the
\* ids of the responses the result was built from.
\* For test_connectivity, described is what its call of describe returned
\* ("Ok" or the variant of NReplError) and responding the bool made of it.
Payload(session, eval, resp) ==
    [session |-> session, eval |-> eval, resp |-> resp, described |-> "None",
     responding |-> FALSE]
NoPayload == Payload(<<>>, EvalResultNew, EmptyResponse)
Responding(kind) == [NoPayload EXCEPT !.described = kind, !.responding = (kind = "Ok")]
Returned(c, kind, msg, used, value) ==
    [op |-> c.cur.op, id |-> c.cur.id, session |-> c.cur.session, kind |-> kind,
     msg |-> msg, used |-> used, value |-> value]
NoResult == [op |-> "", id |-> <<>>, session |-> <<>>, kind |-> "None", msg |-> "",
             used |-> {}, value |-> NoPayload]

SingleOps == {"clone_session", "describe", "test_connectivity", "ls_sessions",
              "completions", "lookup",
              "ls_middleware", "add_middleware", "swap_middleware"}
AccOps == {"eval", "load_file"}
AckOps == {"interrupt", "close_session"}

(***************************************************************************)
(* connection.rs: read_response, up to its stream.read().await              *)
(***************************************************************************)
\* One pass of the loop body before the socket read:
\*   "ok":   a response was decoded, its bytes drained, the counter reset
\*   "err":  the call fails (too many incomplete reads)
\*   "read": the loop goes on to stream.read()
\* A loop that clears the buffer after a decode instead of draining the
\* bytes consumed.
ReadDecoded_clear(buf, irc, d) ==
    IF d.ok
    THEN [tag |-> "ok", buffer |-> <<>>, irc |-> 0, resp |-> d.resp]
    ELSE IF irc + 1 > MAX_INCOMPLETE_READS
         THEN [tag |-> "err", buffer |-> buf, irc |-> irc + 1, resp |-> EmptyResponse]
         ELSE [tag |-> "read", buffer |-> buf, irc |-> irc + 1, resp |-> EmptyResponse]

\* A loop that counts the incomplete reads and never gives up.
ReadDecoded_nolimit(buf, irc, d) ==
    IF d.ok
    THEN [tag |-> "ok", buffer |-> Slice(buf, d.consumed, Len(buf)), irc |-> 0,
          resp |-> d.resp]
    ELSE [tag |-> "read", buffer |-> buf, irc |-> irc + 1, resp |-> EmptyResponse]

ReadDecoded(buf, irc, d) ==
    IF d.ok
    THEN [tag |-> "ok", buffer |-> Slice(buf, d.consumed, Len(buf)), irc |-> 0,
          resp |-> d.resp]
    \* Err(NReplError::Codec { .. }): every codec error takes this arm
    ELSE IF irc + 1 > MAX_INCOMPLETE_READS
         THEN [tag |-> "err", buffer |-> buf, irc |-> irc + 1, resp |-> EmptyResponse]
         ELSE [tag |-> "read", buffer |-> buf, irc |-> irc + 1, resp |-> EmptyResponse]

ReadResponseTop(buf, irc) ==
    IF buf = <<>> THEN [tag |-> "read", buffer |-> buf, irc |-> irc, resp |-> EmptyResponse]
    ELSE ReadDecoded(buf, irc, decode_response(buf))

IsDone(r) == \E i \in 1..Len(r.status) : r.status[i] = S_done

(***************************************************************************)
(* connection.rs: the body of the loop of send_and_accumulate_responses for *)
(* one response that carries the request's id.                              *)
(* a = [result, total_output_size]; the outcome is [ok, a, msg].            *)
(***************************************************************************)
\* An entry check that is off by one: it lets one entry more through.
FoldOut_offbyone(a, r) ==
    IF r.out = None THEN [ok |-> TRUE, a |-> a, msg |-> ""]
    ELSE IF Len(a.result.output) > MAX_OUTPUT_ENTRIES
         THEN [ok |-> FALSE, a |-> a, msg |-> "Output exceeded maximum entries limit"]
    ELSE IF a.total_output_size + Len(r.out[1]) > MAX_OUTPUT_TOTAL_SIZE
         THEN [ok |-> FALSE, a |-> a, msg |-> "Output exceeded maximum total size"]
    ELSE [ok |-> TRUE, msg |-> "",
          a |-> [a EXCEPT !.total_output_size = @ + Len(r.out[1]),
                          !.result.output = Append(@, r.out[1])]]

FoldOut(a, r) ==
    IF r.out = None THEN [ok |-> TRUE, a |-> a, msg |-> ""]
    ELSE IF Len(a.result.output) >= MAX_OUTPUT_ENTRIES
         THEN [ok |-> FALSE, a |-> a, msg |-> "Output exceeded maximum entries limit"]
    ELSE IF a.total_output_size + Len(r.out[1]) > MAX_OUTPUT_TOTAL_SIZE
         THEN [ok |-> FALSE, a |-> a, msg |-> "Output exceeded maximum total size"]
    ELSE [ok |-> TRUE, msg |-> "",
          a |-> [a EXCEPT !.total_output_size = @ + Len(r.out[1]),
                          !.result.output = Append(@, r.out[1])]]

\* An err fold that holds only the err fragments against the size limit.
FoldErr_separate(a, r) ==
    IF r.err = None THEN [ok |-> TRUE, a |-> a, msg |-> ""]
    ELSE IF Len(a.result.error) >= MAX_OUTPUT_ENTRIES
         THEN [ok |-> FALSE, a |-> a, msg |-> "Error output exceeded maximum entries limit"]
    ELSE IF Len(r.err[1]) > MAX_OUTPUT_TOTAL_SIZE
         THEN [ok |-> FALSE, a |-> a, msg |-> "Error output exceeded maximum total size"]
    ELSE [ok |-> TRUE, msg |-> "",
          a |-> [a EXCEPT !.result.error = Append(@, r.err[1])]]

FoldErr(a, r) ==
    IF r.err = None THEN [ok |-> TRUE, a |-> a, msg |-> ""]
    ELSE IF Len(a.result.error) >= MAX_OUTPUT_ENTRIES
         THEN [ok |-> FALSE, a |-> a, msg |-> "Error output exceeded maximum entries limit"]
    ELSE IF a.total_output_size + Len(r.err[1]) > MAX_OUTPUT_TOTAL_SIZE
         THEN [ok |-> FALSE, a |-> a, msg |-> "Error output exceeded maximum total size"]
    ELSE [ok |-> TRUE, msg |-> "",
          a |-> [a EXCEPT !.total_output_size = @ + Len(r.err[1]),
                          !.result.error = Append(@, r.err[1])]]

\* A fold in which the first value and namespace win.
FoldValueNs_first(a, r) ==
    [a EXCEPT !.result.value = IF @ = None THEN r.value ELSE @,
              !.result.ns = IF @ = None THEN r.ns ELSE @]

\* if let Some(value) = response.value { result.value = Some(value) }, and
\* the same for ns
FoldValueNs(a, r) ==
    [a EXCEPT !.result.value = IF r.value # None THEN r.value ELSE @,
              !.result.ns = IF r.ns # None THEN r.ns ELSE @]

\* The fold after err has been handled with outcome e, and after out has
\* been handled with outcome o.
FoldAfterErr(e, r) ==
    IF ~e.ok THEN e ELSE [ok |-> TRUE, a |-> FoldValueNs(e.a, r), msg |-> ""]

FoldAfterOut(o, r) ==
    IF ~o.ok THEN o ELSE FoldAfterErr(FoldErr(o.a, r), r)

FoldResponse(a, r) == FoldAfterOut(FoldOut(a, r), r)

(***************************************************************************)
(* A call from its last suspension to its next one, or to its return.       *)
(***************************************************************************)
\* A check that lets every session id through.
validate_session_any(c, session) == TRUE

\* connection.rs: validate_session
validate_session(c, session) == session \in c.sessions

\* A request whose id is put into timed_out_ids when it is sent.
SendRequest_marked(c, op, session, deadline) ==
    LET id == ReqId(c.counter) IN
    [c EXCEPT !.counter = @ + 1,
              !.pc = "write",
              !.tids = @ \cup {id},
              !.cur.op = IF c.cur.op = "shutdown" THEN "shutdown" ELSE op,
              !.cur.session = session,
              !.cur.id = id,
              !.cur.deadline = deadline,
              !.acc = AccNew,
              !.rx = <<>>]

\* A request whose id is read from the counter without advancing it.
SendRequest_reuse(c, op, session, deadline) ==
    LET id == ReqId(c.counter) IN
    [c EXCEPT !.pc = "write",
              !.cur.op = IF c.cur.op = "shutdown" THEN "shutdown" ELSE op,
              !.cur.session = session,
              !.cur.id = id,
              !.cur.deadline = deadline,
              !.acc = AccNew,
              !.rx = <<>>]

\* The request is built (ops.rs: base_request takes the next id) and the
\* call is suspended in stream.write_all(&encoded).
SendRequest(c, op, session, deadline) ==
    LET id == ReqId(c.counter) IN
    [c EXCEPT !.counter = @ + 1,
              !.pc = "write",
              !.cur.op = IF c.cur.op = "shutdown" THEN "shutdown" ELSE op,
              !.cur.session = session,
              !.cur.id = id,
              !.cur.deadline = deadline,
              !.acc = AccNew,
              !.rx = <<>>]

\* The call returns; the accumulator is a local of the call and is dropped.
\* test_connectivity turns what describe returned into a bool: Ok(true) for
\* Ok, Ok(false) for every error and for the timeout.
Return(c, kind, msg, used, value) ==
    [c EXCEPT !.pc = "idle", !.acc = AccNew,
              !.result = IF c.cur.op = "test_connectivity"
                         THEN Returned(c, "Ok", "", used, Responding(kind))
                         ELSE Returned(c, kind, msg, used, value)]

RECURSIVE Drive(_)
RECURSIVE OnResponse(_, _)
RECURSIVE OnFolded(_, _, _)
RECURSIVE DriveOn(_, _)
RECURSIVE Finish(_, _, _, _, _)
RECURSIVE ShutdownLoop(_)

\* shutdown: close_session for each collected session, whatever the outcome of
\* the one before, then stream.shutdown().
ShutdownLoop(c) ==
    IF c.cur.todo = <<>>
    THEN [c EXCEPT !.stream = "shutdown", !.pc = "closed", !.acc = AccNew,
                   !.cur.session = <<>>, !.cur.id = <<>>, !.cur.deadline = FALSE,
                   !.result = [NoResult EXCEPT !.op = "shutdown", !.kind = "Ok"]]
    ELSE SendRequest([c EXCEPT !.cur.todo = Tail(@)], "close_session",
                     Head(c.cur.todo), TRUE)

\* A shutdown that gives up when closing a session fails.
Finish_abort(c, kind, msg, used, value) ==
    IF c.cur.op = "shutdown" /\ kind = "Ok" THEN ShutdownLoop(c)
    ELSE Return(c, kind, msg, used, value)

\* The call's own return, or for shutdown the end of one close_session.
Finish(c, kind, msg, used, value) ==
    IF c.cur.op = "shutdown" THEN ShutdownLoop(c)
    ELSE Return(c, kind, msg, used, value)

\* An acknowledgement loop that does not look at err.
AckFails_never(r) == FALSE

\* interrupt_impl, close_session_impl: if let Some(err) = response.err
AckFails(r) == r.err # None

\* A close that empties the registry.
CloseRemoves_all(tracked, session) == {}

\* close_session_impl: self.sessions.remove(session.id())
CloseRemoves(tracked, session) == tracked \ {session}

\* A loop that skips no response.
SkipsResponse_never(c, r) == FALSE

\* send_and_accumulate_responses: if response.id != request.id { continue }
SkipsResponse(c, r) == r.id # c.cur.id

\* send_and_accumulate_responses after the response r, which carries the
\* request's id, has been folded with outcome f.
OnFolded(c, r, f) ==
    IF ~f.ok THEN Return(c, "Protocol", f.msg, {r.id}, NoPayload)
    ELSE IF IsDone(r)
         THEN Return([c EXCEPT !.acc = f.a], "Ok", "", {r.id},
                     Payload(<<>>, f.a.result, EmptyResponse))
         ELSE Drive([c EXCEPT !.acc = f.a])

OnResponse(c, r) ==
    CASE c.cur.op \in AccOps ->
           \* send_and_accumulate_responses
           IF r.id \in c.tids THEN Drive([c EXCEPT !.tids = @ \ {r.id}])
           ELSE IF SkipsResponse(c, r) THEN Drive(c)
           ELSE OnFolded(c, r, FoldResponse(c.acc, r))
      [] c.cur.op \in AckOps \cup {"shutdown"} ->
           \* interrupt_impl, close_session_impl
           IF r.id # c.cur.id THEN Drive(c)
           ELSE IF AckFails(r)
                THEN Finish(c, "OperationFailed", "", {r.id}, NoPayload)
           ELSE IF IsDone(r)
                THEN IF c.cur.op = "interrupt"
                     THEN Finish(c, "Ok", "", {r.id}, NoPayload)
                     ELSE Finish([c EXCEPT !.sessions = CloseRemoves(@, c.cur.session)],
                                 "Ok", "", {r.id}, NoPayload)
           ELSE Drive(c)
      [] c.cur.op = "clone_session" ->
           \* send_request returns the response it read
           IF r.new_session = None
           THEN Return(c, "Protocol", "Missing new-session in clone response", {r.id},
                       NoPayload)
           ELSE Return([c EXCEPT !.sessions = @ \cup {r.new_session[1]}], "Ok", "",
                       {r.id}, Payload(r.new_session[1], EvalResultNew, r))
      [] OTHER ->
           \* describe, ls_sessions, completions, lookup, *_middleware: the
           \* result is read from the response send_request returned
           Return(c, "Ok", "", {r.id}, Payload(<<>>, EvalResultNew, r))

\* The call after read_response has run up to its socket read with outcome
\* t: it waits for the socket, fails, or handles the response.
DriveOn(c, t) ==
    CASE t.tag = "read" -> [c EXCEPT !.buffer = t.buffer, !.irc = t.irc, !.pc = "read"]
      [] t.tag = "err" ->
           Finish([c EXCEPT !.buffer = t.buffer, !.irc = t.irc],
                  "Protocol", "Too many incomplete reads", {}, NoPayload)
      [] t.tag = "ok" ->
           OnResponse([c EXCEPT !.buffer = t.buffer, !.irc = t.irc,
                                !.rx = Append(@, t.resp)], t.resp)

Drive(c) == DriveOn(c, ReadResponseTop(c.buffer, c.irc))

\* write_all and flush have returned Ok: the request is on the socket.  stdin
\* returns here; every other operation goes on to read_response.
Written(c) ==
    IF c.cur.op = "stdin"
    THEN Return([c EXCEPT !.sent = Append(@, c.cur.id)], "Ok", "", {}, NoPayload)
    ELSE Drive([c EXCEPT !.sent = Append(@, c.cur.id)])

\* The write is cut short, by an error or by the deadline of the call.
CutShort(c) == IF c.pc = "write" THEN [c EXCEPT !.frag = @ \cup {c.cur.id}] ELSE c

\* The call begins: cur describes it, nothing has been read for it and it has
\* returned nothing.
Begin(c, op, session) ==
    [c EXCEPT !.cur = [NoCall EXCEPT !.op = op, !.session = session,
                                     !.after = c.result.kind],
              !.acc = AccNew, !.rx = <<>>, !.result = NoResult]

(***************************************************************************)
(* The operations of NReplClient.  A call runs from the idle state to its   *)
(* first stream.read() or to its return.                                    *)
(***************************************************************************)
CanCall == pc = "idle" /\ stream = "open"
\* The requests this client has built so far: written, cut short, or being
\* written.
Requested == Len(sent) + Cardinality(fragments) + (IF pc = "write" THEN 1 ELSE 0)
CanRequest == CanCall /\ Requested < MaxRequests
\* A call that fails validation takes no request id.
CanRequestIn(session) == CanCall /\ (session \in sessions => Requested < MaxRequests)
PeerUnchanged == UNCHANGED <<wire, peer_closed, nmsgs>>
\* A call on an NReplClient that the program uses directly.
EnvUnchanged == PeerUnchanged /\ UNCHANGED <<ffi_vars, codec_vars>>

\* An operation that validates the session, sends one request and waits.
SessionCall(op, session, deadline) ==
    LET c == Begin(Client, op, session) IN
    IF ~validate_session(c, session)
    THEN Return(c, "SessionNotFound", "", {}, Payload(session, EvalResultNew, EmptyResponse))
    ELSE SendRequest(c, op, session, deadline)

\* An operation that sends one request without a session check and waits.
PlainCall(op, session, deadline) ==
    SendRequest(Begin(Client, op, session), op, session, deadline)

clone_session ==
    /\ CanRequest
    /\ SetClient(PlainCall("clone_session", <<>>, TRUE))
    /\ EnvUnchanged

eval(session) ==
    /\ CanRequestIn(session)
    /\ SetClient(SessionCall("eval", session, TRUE))
    /\ EnvUnchanged

load_file(session) ==
    /\ CanRequestIn(session)
    /\ SetClient(SessionCall("load_file", session, FALSE))
    /\ EnvUnchanged

interrupt(session) ==
    /\ CanRequestIn(session)
    /\ SetClient(SessionCall("interrupt", session, TRUE))
    /\ EnvUnchanged

close_session(session) ==
    /\ CanRequest
    /\ SetClient(PlainCall("close_session", session, TRUE))
    /\ EnvUnchanged

describe ==
    /\ CanRequest
    /\ SetClient(PlainCall("describe", <<>>, FALSE))
    /\ EnvUnchanged

\* timeout(Duration::from_secs(5), self.describe(false))
test_connectivity ==
    /\ CanRequest
    /\ SetClient(PlainCall("test_connectivity", <<>>, TRUE))
    /\ EnvUnchanged

ls_sessions ==
    /\ CanRequest
    /\ SetClient(PlainCall("ls_sessions", <<>>, FALSE))
    /\ EnvUnchanged

\* stdin writes its request and returns without reading a response.
stdin(session) ==
    /\ CanRequestIn(session)
    /\ SetClient(SessionCall("stdin", session, FALSE))
    /\ EnvUnchanged

completions(session) ==
    /\ CanRequestIn(session)
    /\ SetClient(SessionCall("completions", session, FALSE))
    /\ EnvUnchanged

lookup(session) ==
    /\ CanRequestIn(session)
    /\ SetClient(SessionCall("lookup", session, FALSE))
    /\ EnvUnchanged

ls_middleware ==
    /\ CanRequest
    /\ SetClient(PlainCall("ls_middleware", <<>>, FALSE))
    /\ EnvUnchanged

add_middleware ==
    /\ CanRequest
    /\ SetClient(PlainCall("add_middleware", <<>>, FALSE))
    /\ EnvUnchanged

swap_middleware ==
    /\ CanRequest
    /\ SetClient(PlainCall("swap_middleware", <<>>, FALSE))
    /\ EnvUnchanged

register_session(session) ==
    /\ CanCall
    /\ LET c == Begin(Client, "register_session", session) IN
       SetClient(Return([c EXCEPT !.sessions = @ \cup {session}], "Ok", "", {}, NoPayload))
    /\ EnvUnchanged

\* The orders in which self.sessions.values() may yield the sessions.
Orders(S) == {o \in [1..Cardinality(S) -> S] : \A x \in S : \E i \in DOMAIN o : o[i] = x}

shutdown ==
    /\ CanCall
    /\ Requested + Cardinality(sessions) <= MaxRequests
    /\ \E order \in Orders(sessions) :
          SetClient(ShutdownLoop([Begin(Client, "shutdown", <<>>) EXCEPT !.cur.todo = order]))
    /\ EnvUnchanged

(***************************************************************************)
(* The suspended call resumes: the write or the read returns, or the        *)
(* deadline of tokio::time::timeout passes first.                           *)
(***************************************************************************)
\* stream.write_all(&encoded).await and stream.flush().await return Ok.
write_returns ==
    /\ pc = "write"
    /\ SetClient(Written(Client))
    /\ PeerUnchanged

socket_write == write_returns /\ UNCHANGED <<ffi_vars, codec_vars>>

\* write_all or flush returns Err: the ? operator turns the io::Error into
\* NReplError::Connection before anything is read.
write_fails ==
    /\ pc = "write"
    /\ SetClient(Finish(CutShort(Client), "Connection", "write", {}, NoPayload))
    /\ PeerUnchanged

socket_write_error == write_fails /\ UNCHANGED <<ffi_vars, codec_vars>>

\* A limit that the reads of one call can reach before the incomplete reads
\* are too many.
ExceedsResponseSize_tight(len, n) ==
    len + n > MAX_RESPONSE_SIZE \div (MAX_INCOMPLETE_READS + 2)

\* A size check made on the buffer as it is, without the bytes just read.
ExceedsResponseSize_after(len, n) == len > MAX_RESPONSE_SIZE

\* if self.buffer.len() + n > MAX_RESPONSE_SIZE
ExceedsResponseSize(len, n) == len + n > MAX_RESPONSE_SIZE

read_returns(n) ==
    /\ pc = "read"
    /\ n \in 1..Min(TEMP_BUF_SIZE, Len(wire))
    /\ wire' = SubSeq(wire, n + 1, Len(wire))
    /\ IF ExceedsResponseSize(Len(buffer), n)
       THEN SetClient(Finish(Client, "Protocol", "Response would exceed maximum size", {},
                             NoPayload))
       ELSE SetClient(Drive([Client EXCEPT !.buffer = @ \o SubSeq(wire, 1, n)]))
    /\ UNCHANGED <<peer_closed, nmsgs>>

socket_read(n) == read_returns(n) /\ UNCHANGED <<ffi_vars, codec_vars>>

\* A read of zero bytes after which the loop reads again.
read_eof_retry ==
    /\ pc = "read"
    /\ wire = <<>>
    /\ peer_closed
    /\ SetClient(Drive(Client))
    /\ PeerUnchanged

\* stream.read() returns 0: the peer has closed and everything was read.
read_eof ==
    /\ pc = "read"
    /\ wire = <<>>
    /\ peer_closed
    /\ SetClient(Finish(Client, "Connection", "connection closed", {}, NoPayload))
    /\ PeerUnchanged

socket_eof == read_eof /\ UNCHANGED <<ffi_vars, codec_vars>>

\* A close_session that forgets its session when it times out.
OnTimeout_forget(c) ==
    CASE c.cur.op = "eval" ->
           Return([c EXCEPT !.tids = @ \cup {c.cur.id}], "Timeout", "eval", {}, NoPayload)
      [] c.cur.op = "shutdown" -> ShutdownLoop(c)
      [] c.cur.op = "close_session" ->
           Return([c EXCEPT !.sessions = @ \ {c.cur.session}], "Timeout", c.cur.op, {},
                  NoPayload)
      [] OTHER -> Return(c, "Timeout", c.cur.op, {}, NoPayload)

\* The Err(_) arm of the match on timeout(...).await in clone_session,
\* eval_with_timeout, interrupt and close_session.
OnTimeout(c) ==
    CASE c.cur.op = "eval" ->
           Return([c EXCEPT !.tids = @ \cup {c.cur.id}], "Timeout", "eval", {}, NoPayload)
      [] c.cur.op = "shutdown" -> ShutdownLoop(c)
      [] OTHER -> Return(c, "Timeout", c.cur.op, {}, NoPayload)

\* The deadline passes while the call is suspended in the write or in the
\* read.
deadline_passes ==
    /\ pc \in {"write", "read"}
    /\ cur.deadline
    /\ SetClient(OnTimeout(CutShort(Client)))
    /\ PeerUnchanged

timeout == deadline_passes /\ UNCHANGED <<ffi_vars, codec_vars>>

(***************************************************************************)
(* The peer                                                                 *)
(***************************************************************************)
SentIds == {sent[i] : i \in 1..Len(sent)}

WireMsg(id, out, err, value, ns, new_session, status) ==
    [id |-> id, out |-> out, err |-> err, value |-> value, ns |-> ns,
     new_session |-> new_session, status |-> status]

\* The messages the peer may write in answer to request id: output with an
\* intermediate value, error output, the final message of an evaluation, and
\* the answer to clone.  The first value is the bencode integer 7, the second
\* the bencode string "3" (quotes included).
PeerMsgs(id) ==
    { WireMsg(id, Some(<<"a">>), None, Some(<<"i", "7", "e">>), Some(<<"v">>), None, <<>>),
      WireMsg(id, None, Some(<<"b", "b">>), None, None, None, <<>>),
      WireMsg(id, Some(<<"c">>), None, Some(BStr(<<Quote, "3", Quote>>)), Some(<<"u">>),
              None, <<S_done>>) }
    \cup { WireMsg(id, None, None, None, None, Some(s), <<S_done>>) : s \in IssuedIds }

\* Bytes that are no bencode value: an illegal leading byte, and a string
\* length above MAX_STRING_LENGTH.
Garbage == { <<"x">>, <<"9", "9", "9", "9", "9", "9", "9", "9", "9", ":">> }

\* The client sees the peer's bytes, and its closing, only in stream.read():
\* what the peer does while no read is pending is seen by the next read as if
\* done when that read starts, so the peer acts while a read is pending.
CanSend == ~peer_closed /\ pc = "read" /\ nmsgs < MaxMsgs

peer_send ==
    /\ CanSend
    /\ \E id \in SentIds : \E m \in PeerMsgs(id) : wire' = wire \o EncodeMsg(m)
    /\ nmsgs' = nmsgs + 1
    /\ UNCHANGED <<REQUEST_ID_COUNTER, sessions, buffer, incomplete_read_count,
                   timed_out_ids, stream, sent, fragments, peer_closed, pc, cur,
                   acc, rx, result>>
    /\ UNCHANGED <<ffi_vars, codec_vars>>

peer_send_garbage ==
    /\ CanSend
    /\ \E g \in Garbage : wire' = wire \o g
    /\ nmsgs' = nmsgs + 1
    /\ UNCHANGED <<REQUEST_ID_COUNTER, sessions, buffer, incomplete_read_count,
                   timed_out_ids, stream, sent, fragments, peer_closed, pc, cur,
                   acc, rx, result>>
    /\ UNCHANGED <<ffi_vars, codec_vars>>

peer_close ==
    /\ ~peer_closed
    /\ pc = "read"
    /\ wire = <<>>
    /\ peer_closed' = TRUE
    /\ UNCHANGED <<REQUEST_ID_COUNTER, sessions, buffer, incomplete_read_count,
                   timed_out_ids, stream, sent, fragments, wire, nmsgs, pc, cur,
                   acc, rx, result>>
    /\ UNCHANGED <<ffi_vars, codec_vars>>

(***************************************************************************)
(* The specification                                                        *)
(***************************************************************************)
\* worker.rs: a WorkerCommand.  request_id is that of an EvalRequest or a
\* LoadFileRequest (0 for the other commands); waited tells that the receiver
\* of the command's one-shot channel still exists.
Command(cmd, session, request_id, waited) ==
    [cmd |-> cmd, session |-> session, request_id |-> request_id, waited |-> waited]
NoCommand == Command("", <<>>, 0, FALSE)

\* The call the calling thread waits in: its command ("Connect" for
\* create_and_connect) and, for nrepl_close_session, the SessionId it was
\* called with.
Waiting(cmd, sid) == [cmd |-> cmd, sid |-> sid]
NoCaller == Waiting("", 0)

\* What a command's one-shot channel holds, and what an FFI call returned.
NoReply == [kind |-> "None", session |-> <<>>]
NoFfiResult == [op |-> "", kind |-> "None"]

\* The state after NReplClient::connect, with an empty registry.
InitProgram ==
    /\ REQUEST_ID_COUNTER = 1
    /\ sessions = {}
    /\ buffer = <<>>
    /\ incomplete_read_count = 0
    /\ timed_out_ids = {}
    /\ stream = "open"
    /\ sent = <<>>
    /\ fragments = {}
    /\ wire = <<>>
    /\ peer_closed = FALSE
    /\ nmsgs = 0
    /\ pc = "idle"
    /\ cur = NoCall
    /\ acc = AccNew
    /\ rx = <<>>
    /\ result = NoResult
    /\ connections = {}
    /\ next_conn_id = 1
    /\ workers_spawned = 0
    /\ entry_sessions = {}
    /\ next_session_id = 1
    /\ next_request_id = 1
    /\ pending_responses = {}
    /\ commands = <<>>
    /\ responses = <<>>
    /\ worker = "none"
    /\ wcmd = NoCommand
    /\ caller = NoCaller
    /\ threads = EmptyBag
    /\ reply = NoReply
    /\ collected = {}
    /\ ffi_result = NoFfiResult

\* What the codec is given when it is called on its own.
NoInput == [kind |-> "", request |-> <<>>, parts |-> <<>>]

Init ==
    /\ InitProgram
    /\ input = NoInput
    /\ data = <<>>
    /\ scan_out = <<>>
    /\ decode_out = <<>>

Next ==
    \/ clone_session
    \/ \E s \in CallerSessions : eval(s)
    \/ \E s \in CallerSessions : load_file(s)
    \/ \E s \in CallerSessions : interrupt(s)
    \/ \E s \in CallerSessions : close_session(s)
    \/ describe
    \/ test_connectivity
    \/ ls_sessions
    \/ \E s \in CallerSessions : stdin(s)
    \/ \E s \in CallerSessions : completions(s)
    \/ \E s \in CallerSessions : lookup(s)
    \/ ls_middleware
    \/ add_middleware
    \/ swap_middleware
    \/ \E s \in CallerSessions : register_session(s)
    \/ shutdown
    \/ socket_write
    \/ socket_write_error
    \/ socket_read(Min(TEMP_BUF_SIZE, Len(wire)))
    \/ socket_eof
    \/ timeout
    \/ peer_send
    \/ peer_send_garbage
    \/ peer_close

Spec == Init /\ [][Next]_vars

(***************************************************************************)
(* The specification of the output limits: evaluations in a registered      *)
(* session, with a peer that writes output in small chunks.  No deadline     *)
(* passes.                                                                  *)
(***************************************************************************)
MaxChunks == 3        \* messages the peer writes in one behaviour with output chunks

\* The messages of an evaluation: an out chunk of one byte and one of two
\* bytes, an err chunk, a final message with an out and an err chunk, and a
\* bare final message.
ChunkMsgs(id) ==
    { WireMsg(id, Some(<<"a">>), None, None, None, None, <<>>),
      WireMsg(id, Some(<<"c", "c">>), None, None, None, None, <<>>),
      WireMsg(id, None, Some(<<"b">>), None, None, None, <<>>),
      WireMsg(id, Some(<<"a">>), Some(<<"b">>), None, None, None, <<S_done>>),
      WireMsg(id, None, None, None, None, None, <<S_done>>) }

CanSendChunk == ~peer_closed /\ pc = "read" /\ nmsgs < MaxChunks

peer_chunk ==
    /\ CanSendChunk
    /\ \E id \in SentIds : \E m \in ChunkMsgs(id) : wire' = wire \o EncodeMsg(m)
    /\ nmsgs' = nmsgs + 1
    /\ UNCHANGED <<REQUEST_ID_COUNTER, sessions, buffer, incomplete_read_count,
                   timed_out_ids, stream, sent, fragments, peer_closed, pc, cur,
                   acc, rx, result>>
    /\ UNCHANGED <<ffi_vars, codec_vars>>

NextLimits ==
    \/ register_session(S1)
    \/ eval(S1)
    \/ load_file(S1)
    \/ socket_write
    \/ socket_read(Min(TEMP_BUF_SIZE, Len(wire)))
    \/ peer_chunk

SpecLimits == Init /\ [][NextLimits]_vars

(***************************************************************************)
(* The specification of the size limit of the receive buffer: evaluations   *)
(* with a peer that may also write a message larger than the buffer may     *)
(* get, and a socket that returns all bytes it has, or one byte.            *)
(***************************************************************************)
\* A message whose out string alone has MAX_RESPONSE_SIZE bytes.
FloodMsg(id) ==
    WireMsg(id, Some([i \in 1..MAX_RESPONSE_SIZE |-> "x"]), None, None, None, None, <<>>)

peer_flood ==
    /\ CanSendChunk
    /\ wire' = wire \o EncodeMsg(FloodMsg(cur.id))
    /\ nmsgs' = nmsgs + 1
    /\ UNCHANGED <<REQUEST_ID_COUNTER, sessions, buffer, incomplete_read_count,
                   timed_out_ids, stream, sent, fragments, peer_closed, pc, cur,
                   acc, rx, result>>
    /\ UNCHANGED <<ffi_vars, codec_vars>>

NextSize ==
    \/ register_session(S1)
    \/ eval(S1)
    \/ socket_write
    \/ socket_read(Min(TEMP_BUF_SIZE, Len(wire)))
    \/ socket_read(1)
    \/ peer_chunk
    \/ peer_flood

SpecSize == Init /\ [][NextSize]_vars

(***************************************************************************)
(* The specification of the byte stream: the peer writes complete,          *)
(* well-formed responses, and each stream.read() returns any number of the  *)
(* bytes that are there, from one up to the size of the read buffer.        *)
(***************************************************************************)
\* An out chunk, and a final message.
StreamMsgs(id) ==
    { WireMsg(id, Some(<<"a">>), None, None, None, None, <<>>),
      WireMsg(id, None, None, None, None, None, <<S_done>>) }

peer_stream ==
    /\ CanSend
    /\ \E id \in SentIds : \E m \in StreamMsgs(id) : wire' = wire \o EncodeMsg(m)
    /\ nmsgs' = nmsgs + 1
    /\ UNCHANGED <<REQUEST_ID_COUNTER, sessions, buffer, incomplete_read_count,
                   timed_out_ids, stream, sent, fragments, peer_closed, pc, cur,
                   acc, rx, result>>
    /\ UNCHANGED <<ffi_vars, codec_vars>>

NextStream ==
    \/ register_session(S1)
    \/ eval(S1)
    \/ describe
    \/ socket_write
    \/ \E n \in 1..Min(TEMP_BUF_SIZE, Len(wire)) : socket_read(n)
    \/ peer_stream

SpecStream == Init /\ [][NextStream]_vars

(***************************************************************************)
(* The specification of the received bytes: calls that fail and time out,   *)
(* with a peer that writes responses, bytes that are no bencode and a       *)
(* message larger than the buffer may get, and a socket that returns one    *)
(* byte or up to MaxRead bytes.  MaxRead keeps the proportion of the        *)
(* source, where the 4096 bytes of temp_buf are less than                   *)
(* MAX_RESPONSE_SIZE / (MAX_INCOMPLETE_READS + 2).                          *)
(***************************************************************************)
MaxRead == MAX_RESPONSE_SIZE \div (MAX_INCOMPLETE_READS + 2)

NextBytes ==
    \/ register_session(S1)
    \/ eval(S1)
    \/ clone_session
    \/ close_session(S1)
    \/ socket_write
    \/ socket_read(1)
    \/ socket_read(Min(MaxRead, Len(wire)))
    \/ socket_eof
    \/ timeout
    \/ peer_send
    \/ peer_send_garbage
    \/ peer_flood
    \/ peer_close

SpecBytes == Init /\ [][NextBytes]_vars

(***************************************************************************)
(* The specification of the request ids: the connection shares its process  *)
(* with other clients, which take their request ids from the same static    *)
(* counter.                                                                 *)
(***************************************************************************)
MaxOther == 1         \* request ids other clients of the process take in one behaviour

\* The ids of the counter that went to other clients: every id this
\* connection took is in sent.
TakenByOthers == REQUEST_ID_COUNTER - 1 - Requested

\* ops.rs: next_request_id, called for a request of another NReplClient of
\* the process.
other_client_request ==
    /\ TakenByOthers < MaxOther
    /\ REQUEST_ID_COUNTER' = REQUEST_ID_COUNTER + 1
    /\ UNCHANGED <<sessions, buffer, incomplete_read_count, timed_out_ids, stream, sent,
                   fragments, wire, peer_closed, nmsgs, pc, cur, acc, rx, result>>
    /\ UNCHANGED <<ffi_vars, codec_vars>>

NextIds ==
    \/ register_session(S1)
    \/ eval(S1)
    \/ describe
    \/ stdin(S1)
    \/ shutdown
    \/ other_client_request
    \/ socket_write
    \/ socket_read(Min(TEMP_BUF_SIZE, Len(wire)))
    \/ timeout
    \/ peer_stream

SpecIds == Init /\ [][NextIds]_vars

(***************************************************************************)
(* steel-nrepl: the registry (registry.rs), the worker of a connection      *)
(* (worker.rs) and the functions exported to Steel (connection.rs).  The    *)
(* worker, the channels and the client are modelled for the connection      *)
(* FOCUS; of the other connections only the registry entry is.  The         *)
(* registry is behind one mutex: a function of registry.rs holds it for the *)
(* length of one call, a *_blocking function and create_and_connect while   *)
(* they wait, so no other function runs while caller is set; the worker     *)
(* threads run all the same.  A function of connection.rs that              *)
(* calls registry.rs twice gives the mutex up in between, and the calls of  *)
(* other threads run there.                                                 *)
(***************************************************************************)
MAX_CONNECTIONS == 2          \* registry.rs: 100
MAX_PENDING_RESPONSES == 1    \* worker.rs: 1000
MaxWorkers == 3       \* calls of Worker::new in one behaviour
MaxCommands == 3      \* requests the worker's commands write in one behaviour
MaxSubmits == 2       \* evaluations and file loads submitted in one behaviour
MaxThreads == 2       \* threads that are inside a function of connection.rs

\* Registry::new: next_conn_id starts at 1.
FOCUS == 1

ClientUnchanged ==
    UNCHANGED <<REQUEST_ID_COUNTER, sessions, buffer, incomplete_read_count,
                timed_out_ids, stream, sent, fragments, wire, peer_closed, nmsgs, pc, cur,
                acc, rx, result>>

EngineUnchanged == ClientUnchanged /\ UNCHANGED codec_vars

FfiResult(op, kind) == [op |-> op, kind |-> kind]
EvalResponse(request_id, kind) == [request_id |-> request_id, kind |-> kind]
SessionEntry(id, session) == [id |-> id, session |-> session]

\* A call of connection.rs between two calls of registry.rs: at tells the
\* call of registry.rs that comes next, sid and session are the SessionId and
\* the Session the call holds.
Held(at, cmd, sid, session) == [at |-> at, cmd |-> cmd, sid |-> sid, session |-> session]
Holding == BagToSet(threads)
Enter(t) == threads (+) SetToBag({t})
Leave(t) == threads (-) SetToBag({t})
Running == BagCardinality(threads) + (IF caller = NoCaller THEN 0 ELSE 1)
Submitting == {t \in Holding : t.at = "submit"}
Calling == {t \in Holding : t.at = "blocking"}
\* The threads whose next call of registry.rs is one of ats.
CopiesAt(ats) ==
    BagCardinality([t \in {x \in Holding : x.at \in ats} |-> CopiesIn(t, threads)])

\* The registry's lock is free and the entry of FOCUS exists.
CanUse == caller = NoCaller /\ FOCUS \in connections
\* The model's bound on the commands that write a request.
CanCommand == Requested + Len(commands) + CopiesAt({"submit", "blocking"}) < MaxCommands

\* registry.rs: the Ok arm of connect_blocking in create_and_connect.
Connected ==
    /\ connections' = connections \cup {next_conn_id}
    /\ next_conn_id' = next_conn_id + 1
    /\ worker' = IF next_conn_id = FOCUS THEN "running" ELSE worker
    /\ ffi_result' = FfiResult("create_and_connect", "Ok")

\* A failed connect that takes a connection id all the same.
NotConnected_consumes(kind) ==
    /\ ffi_result' = FfiResult("create_and_connect", kind)
    /\ next_conn_id' = next_conn_id + 1
    /\ UNCHANGED <<connections, worker>>

\* The Err arm of connect_blocking: the worker is dropped, the registry is
\* not touched.
NotConnected(kind) ==
    /\ ffi_result' = FfiResult("create_and_connect", kind)
    /\ UNCHANGED <<connections, next_conn_id, worker>>

\* A limit that lets one connection more in.
RegistryFull_above(n) == n > MAX_CONNECTIONS

\* if self.connections.len() >= MAX_CONNECTIONS
RegistryFull(n) == n >= MAX_CONNECTIONS

\* registry.rs: create_and_connect up to recv_timeout in connect_blocking.
\* With the registry's lock the function checks the limit, spawns the worker
\* (Worker::new), sends it Connect and waits for its answer, the lock held.
create_and_connect ==
    /\ caller = NoCaller
    /\ IF RegistryFull(Cardinality(connections))
       THEN /\ ffi_result' = FfiResult("create_and_connect", "Protocol")
            /\ UNCHANGED <<workers_spawned, caller>>
       ELSE /\ Running < MaxThreads
            /\ workers_spawned < MaxWorkers
            /\ workers_spawned' = workers_spawned + 1
            /\ caller' = Waiting("Connect", 0)
            /\ UNCHANGED ffi_result
    /\ EngineUnchanged
    /\ UNCHANGED <<connections, next_conn_id, worker, entry_sessions, next_session_id,
                   next_request_id, pending_responses, commands, responses, wcmd,
                   threads, reply, collected>>

\* worker.rs: the Connect arm of the new worker thread.  NReplClient::connect
\* has returned and its result is sent to the function that waits.
worker_connect ==
    /\ caller.cmd = "Connect"
    /\ reply = NoReply
    /\ \E kind \in {"Ok", "Connection"} : reply' = [kind |-> kind, session |-> <<>>]
    /\ EngineUnchanged
    /\ UNCHANGED <<connections, next_conn_id, workers_spawned, entry_sessions,
                   next_session_id, next_request_id, pending_responses, commands,
                   responses, worker, wcmd, caller, threads, collected, ffi_result>>

\* recv_timeout returns the answer of the new worker: create_and_connect
\* inserts the entry or returns the error, and the lock is given up.
connect_returns ==
    /\ caller.cmd = "Connect"
    /\ reply # NoReply
    /\ caller' = NoCaller
    /\ reply' = NoReply
    /\ IF reply.kind = "Ok" THEN Connected ELSE NotConnected(reply.kind)
    /\ EngineUnchanged
    /\ UNCHANGED <<workers_spawned, entry_sessions, next_session_id, next_request_id,
                   pending_responses, commands, responses, wcmd, threads, collected>>

\* recv_timeout gives up after 30 seconds: create_and_connect returns a
\* Timeout error and the worker is dropped.
connect_timeout ==
    /\ caller.cmd = "Connect"
    /\ reply = NoReply
    /\ caller' = NoCaller
    /\ NotConnected("Timeout")
    /\ EngineUnchanged
    /\ UNCHANGED <<workers_spawned, entry_sessions, next_session_id, next_request_id,
                   pending_responses, commands, responses, wcmd, threads, reply,
                   collected>>

\* The commands that carry the Session of a handle.
SubmitCommands == {"Eval", "LoadFile"}
SessionCommands == {"Interrupt", "CloseSession", "Stdin", "Completions", "Lookup"}

\* The call of registry.rs that follows the lookup of the session.
AfterLookup(cmd) == IF cmd \in SubmitCommands THEN "submit" ELSE "blocking"

\* connection.rs: NReplSession::eval, load_file, completions and lookup,
\* nrepl_interrupt, nrepl_close_session and nrepl_stdin, up to the return of
\* registry::get_session.  A handle whose session is not in the entry is
\* refused; the Session of any other is cloned, and the lock is given up.
get_session(cmd, sid) ==
    /\ caller = NoCaller
    /\ Running < MaxThreads
    /\ CanCommand
    /\ cmd \in SubmitCommands => next_request_id + Cardinality(Submitting) <= MaxSubmits
    /\ IF \E e \in entry_sessions : e.id = sid
       THEN /\ \E e \in entry_sessions :
                 /\ e.id = sid
                 /\ threads' = Enter(Held(AfterLookup(cmd), cmd, sid, e.session))
            /\ UNCHANGED ffi_result
       ELSE /\ ffi_result' = FfiResult(cmd, "Error")
            /\ UNCHANGED threads
    /\ EngineUnchanged
    /\ UNCHANGED <<connections, next_conn_id, workers_spawned, entry_sessions,
                   next_session_id, next_request_id, pending_responses, commands,
                   responses, worker, wcmd, caller, reply, collected>>

\* registry.rs and worker.rs: submit_eval, submit_load_file, called with the
\* Session that get_session returned.  Without the entry of the connection
\* nothing is submitted.
submit(cmd, e) ==
    /\ caller = NoCaller
    /\ BagIn(Held("submit", cmd, e.id, e.session), threads)
    /\ threads' = Leave(Held("submit", cmd, e.id, e.session))
    /\ IF FOCUS \in connections
       THEN /\ next_request_id' = next_request_id + 1
            /\ commands' = Append(commands, Command(cmd, e.session, next_request_id, FALSE))
            /\ ffi_result' = FfiResult(cmd, "Ok")
       ELSE /\ ffi_result' = FfiResult(cmd, "Error")
            /\ UNCHANGED <<next_request_id, commands>>
    /\ EngineUnchanged
    /\ UNCHANGED <<connections, next_conn_id, workers_spawned, entry_sessions,
                   next_session_id, pending_responses, responses, worker, wcmd, caller,
                   reply, collected>>

\* worker.rs: try_recv_response.  The loop moves responses from the channel
\* to pending_responses while there are fewer than MAX_PENDING_RESPONSES.
\* A loop that empties the channel whatever the buffer holds.
DrainCount_all == Len(responses)

DrainCount == Min(Len(responses), MAX_PENDING_RESPONSES - Cardinality(pending_responses))
Drained(n) == pending_responses \cup {responses[i] : i \in 1..n}
ResponsesOf(pending, request_id) == {r \in pending : r.request_id = request_id}

Collect(pending, request_id) ==
    /\ pending_responses' = pending \ ResponsesOf(pending, request_id)
    /\ collected' = IF ResponsesOf(pending, request_id) = {} THEN collected
                    ELSE collected \cup {request_id}

\* nrepl_try_get_result takes any request id, also one that no submission
\* has returned yet.
try_recv_response(request_id) ==
    /\ CanUse
    /\ IF ResponsesOf(pending_responses, request_id) # {}
       THEN /\ Collect(pending_responses, request_id)
            /\ UNCHANGED responses
       ELSE /\ Collect(Drained(DrainCount), request_id)
            /\ responses' = SubSeq(responses, DrainCount + 1, Len(responses))
    /\ EngineUnchanged
    /\ UNCHANGED <<connections, next_conn_id, workers_spawned, entry_sessions,
                   next_session_id, next_request_id, commands, worker, wcmd, caller,
                   threads, reply, ffi_result>>

\* The call that blocking_call(cmd, e) starts: nrepl_clone_session starts
\* with it, every other function has looked the session of its handle up.
CanBlock(cmd, e) ==
    IF cmd = "CloneSession" THEN Running < MaxThreads /\ CanCommand
    ELSE BagIn(Held("blocking", cmd, e.id, e.session), threads)

\* An nrepl_interrupt that writes its request to the socket on the calling
\* thread instead of queueing a command.
blocking_call_direct(cmd, e) ==
    /\ CanUse
    /\ CanBlock(cmd, e)
    /\ threads' = IF cmd = "CloneSession" THEN threads
                   ELSE Leave(Held("blocking", cmd, e.id, e.session))
    /\ IF cmd = "Interrupt"
       THEN /\ sent' = Append(sent, ReqId(REQUEST_ID_COUNTER))
            /\ REQUEST_ID_COUNTER' = REQUEST_ID_COUNTER + 1
            /\ UNCHANGED <<commands, caller, reply>>
       ELSE /\ commands' = Append(commands, Command(cmd, e.session, 0, TRUE))
            /\ caller' = Waiting(cmd, e.id)
            /\ reply' = NoReply
            /\ UNCHANGED <<sent, REQUEST_ID_COUNTER>>
    /\ UNCHANGED <<sessions, buffer, incomplete_read_count, timed_out_ids, stream,
                   fragments, wire, peer_closed, nmsgs, pc, cur, acc, rx, result>>
    /\ UNCHANGED <<connections, next_conn_id, workers_spawned, entry_sessions,
                   next_session_id, next_request_id, pending_responses, responses,
                   worker, wcmd, collected, ffi_result>>
    /\ UNCHANGED codec_vars

\* registry.rs: clone_session_blocking, interrupt_blocking, close_session_blocking,
\* stdin_blocking, completions_blocking and lookup_blocking, with worker.rs up to
\* recv_timeout.  Without the entry of the connection the call fails with a
\* Protocol error.
blocking_call(cmd, e) ==
    /\ caller = NoCaller
    /\ CanBlock(cmd, e)
    /\ threads' = IF cmd = "CloneSession" THEN threads
                   ELSE Leave(Held("blocking", cmd, e.id, e.session))
    /\ IF FOCUS \in connections
       THEN /\ commands' = Append(commands, Command(cmd, e.session, 0, TRUE))
            /\ caller' = Waiting(cmd, e.id)
            /\ reply' = NoReply
            /\ UNCHANGED ffi_result
       ELSE /\ ffi_result' = FfiResult(cmd, "Protocol")
            /\ UNCHANGED <<commands, caller, reply>>
    /\ EngineUnchanged
    /\ UNCHANGED <<connections, next_conn_id, workers_spawned, entry_sessions,
                   next_session_id, next_request_id, pending_responses, responses,
                   worker, wcmd, collected>>

\* What the function does with the Ok of its *_blocking call: nrepl_clone_session
\* goes on to registry::add_session, nrepl_close_session to
\* registry::remove_session, every other function returns.
AfterReply(c, r) ==
    IF r.kind = "Ok" /\ c.cmd = "CloneSession"
    THEN {Held("add_session", c.cmd, 0, r.session)}
    ELSE IF r.kind = "Ok" /\ c.cmd = "CloseSession"
    THEN {Held("remove_session", c.cmd, c.sid, <<>>)}
    ELSE {}

\* recv_timeout returns the worker's answer, and the lock is given up.
blocking_return ==
    /\ caller # NoCaller
    /\ caller.cmd # "Connect"
    /\ reply # NoReply
    /\ caller' = NoCaller
    /\ reply' = NoReply
    /\ threads' = threads (+) SetToBag(AfterReply(caller, reply))
    /\ ffi_result' = IF AfterReply(caller, reply) = {}
                     THEN FfiResult(caller.cmd, reply.kind) ELSE ffi_result
    /\ EngineUnchanged
    /\ UNCHANGED <<connections, next_conn_id, workers_spawned, entry_sessions,
                   next_session_id, next_request_id, pending_responses, commands,
                   responses, worker, wcmd, collected>>

\* registry.rs: add_session, called by nrepl_clone_session with the Session
\* of the worker's answer.  Without the entry of the connection the function
\* fails ("Failed to add session to connection").
add_session(t) ==
    /\ caller = NoCaller
    /\ t.at = "add_session"
    /\ threads' = Leave(t)
    /\ IF FOCUS \in connections
       THEN /\ entry_sessions' = entry_sessions
                                   \cup {SessionEntry(next_session_id, t.session)}
            /\ next_session_id' = next_session_id + 1
            /\ ffi_result' = FfiResult(t.cmd, "Ok")
       ELSE /\ ffi_result' = FfiResult(t.cmd, "Error")
            /\ UNCHANGED <<entry_sessions, next_session_id>>
    /\ EngineUnchanged
    /\ UNCHANGED <<connections, next_conn_id, workers_spawned, next_request_id,
                   pending_responses, commands, responses, worker, wcmd, caller, reply,
                   collected>>

\* registry.rs: remove_session, called by nrepl_close_session, which returns
\* Ok whatever remove_session returns.
remove_session(t) ==
    /\ caller = NoCaller
    /\ t.at = "remove_session"
    /\ threads' = Leave(t)
    /\ entry_sessions' = {e \in entry_sessions : e.id # t.sid}
    /\ ffi_result' = FfiResult(t.cmd, "Ok")
    /\ EngineUnchanged
    /\ UNCHANGED <<connections, next_conn_id, workers_spawned, next_session_id,
                   next_request_id, pending_responses, commands, responses, worker,
                   wcmd, caller, reply, collected>>

\* The receiver of a one-shot channel is dropped.
Abandon(c) == [c EXCEPT !.waited = FALSE]

\* recv_timeout gives up after 30 seconds: the function returns a Timeout
\* error; the command stays where it is.
blocking_timeout ==
    /\ caller # NoCaller
    /\ caller.cmd # "Connect"
    /\ reply = NoReply
    /\ ffi_result' = FfiResult(caller.cmd, "Timeout")
    /\ caller' = NoCaller
    /\ commands' = [i \in 1..Len(commands) |-> Abandon(commands[i])]
    /\ wcmd' = Abandon(wcmd)
    /\ EngineUnchanged
    /\ UNCHANGED <<connections, next_conn_id, workers_spawned, entry_sessions,
                   next_session_id, next_request_id, pending_responses, responses,
                   worker, threads, reply, collected>>

\* connection.rs: nrepl_close, registry.rs: remove_connection.  The entry is
\* dropped: Drop for Worker sends Shutdown, then the sender of the commands
\* and the receiver of the responses are dropped with what they hold.
remove_connection(id) ==
    /\ caller = NoCaller
    /\ IF id \notin connections
       THEN /\ ffi_result' = FfiResult("nrepl_close", "Error")
            /\ UNCHANGED <<connections, commands, responses, pending_responses,
                           entry_sessions>>
       ELSE /\ ffi_result' = FfiResult("nrepl_close", "Ok")
            /\ connections' = connections \ {id}
            /\ IF id = FOCUS
               THEN /\ commands' = Append(commands, Command("Shutdown", <<>>, 0, FALSE))
                    /\ responses' = <<>>
                    /\ pending_responses' = {}
                    /\ entry_sessions' = {}
               ELSE UNCHANGED <<commands, responses, pending_responses, entry_sessions>>
    /\ EngineUnchanged
    /\ UNCHANGED <<next_conn_id, workers_spawned, next_session_id, next_request_id,
                   worker, wcmd, caller, threads, reply, collected>>

\* worker.rs: the thread's loop.  The thread is back in command_rx.recv().
WorkerReady_busy == worker = "running"

WorkerReady == worker = "running" /\ pc = "idle"

\* The call of the client that a command stands for.
CallOf(c) ==
    CASE c.cmd = "Eval" -> SessionCall("eval", c.session, TRUE)
      [] c.cmd = "LoadFile" -> SessionCall("load_file", c.session, FALSE)
      [] c.cmd = "Interrupt" -> SessionCall("interrupt", c.session, TRUE)
      [] c.cmd = "CloneSession" -> PlainCall("clone_session", <<>>, TRUE)
      [] c.cmd = "CloseSession" -> PlainCall("close_session", c.session, TRUE)
      [] c.cmd = "Completions" -> SessionCall("completions", c.session, FALSE)
      [] c.cmd = "Lookup" -> SessionCall("lookup", c.session, FALSE)
      [] c.cmd = "Stdin" -> SessionCall("stdin", c.session, FALSE)

\* block_on has returned.  An Eval or LoadFile sends its EvalResponse and the
\* thread leaves the loop when the receiver is gone; Shutdown leaves the
\* loop; the other commands send to their one-shot channel.
Deliver(c) ==
    /\ wcmd' = NoCommand
    /\ IF c.cmd \in {"Eval", "LoadFile"}
       THEN /\ responses' = IF FOCUS \in connections
                            THEN Append(responses, EvalResponse(c.request_id, result'.kind))
                            ELSE responses
            /\ worker' = IF FOCUS \in connections THEN worker ELSE "exited"
            /\ UNCHANGED reply
       ELSE /\ worker' = IF c.cmd = "Shutdown" THEN "exited" ELSE worker
            /\ reply' = IF c.waited THEN [kind |-> result'.kind,
                                          session |-> result'.value.session]
                        ELSE reply
            /\ UNCHANGED responses

\* The command's call is suspended in a write or a read, or it has returned.
AfterCall(c) ==
    IF pc' \in {"write", "read"}
    THEN wcmd' = c /\ UNCHANGED <<responses, worker, reply>>
    ELSE Deliver(c)

RunCommand(c) ==
    IF c.cmd = "Shutdown"
    THEN \E order \in Orders(sessions) :
            SetClient(ShutdownLoop([Begin(Client, "shutdown", <<>>) EXCEPT !.cur.todo = order]))
    ELSE SetClient(CallOf(c))

worker_recv ==
    /\ WorkerReady
    /\ commands # <<>>
    /\ commands' = Tail(commands)
    /\ RunCommand(Head(commands))
    /\ AfterCall(Head(commands))
    /\ PeerUnchanged
    /\ UNCHANGED <<connections, next_conn_id, workers_spawned, entry_sessions,
                   next_session_id, next_request_id, pending_responses, caller,
                   threads, collected, ffi_result>>
    /\ UNCHANGED codec_vars

WorkerUnchanged ==
    UNCHANGED <<connections, next_conn_id, workers_spawned, entry_sessions,
                next_session_id, next_request_id, pending_responses, commands, caller,
                threads, collected, ffi_result, input, data, scan_out, decode_out>>

worker_socket_read ==
    /\ worker = "running"
    /\ read_returns(Min(TEMP_BUF_SIZE, Len(wire)))
    /\ AfterCall(wcmd)
    /\ WorkerUnchanged

worker_socket_write ==
    /\ worker = "running"
    /\ write_returns
    /\ AfterCall(wcmd)
    /\ WorkerUnchanged

worker_socket_write_error ==
    /\ worker = "running"
    /\ write_fails
    /\ AfterCall(wcmd)
    /\ WorkerUnchanged

worker_timeout ==
    /\ worker = "running"
    /\ deadline_passes
    /\ AfterCall(wcmd)
    /\ WorkerUnchanged

\* The answers of the peer: a final message, and the answer to clone.
FfiMsgs(id) ==
    { WireMsg(id, None, None, None, None, None, <<S_done>>),
      WireMsg(id, None, None, None, None, Some(S1), <<S_done>>) }

peer_answer ==
    /\ CanSend
    /\ \E id \in SentIds : \E m \in FfiMsgs(id) : wire' = wire \o EncodeMsg(m)
    /\ nmsgs' = nmsgs + 1
    /\ UNCHANGED <<REQUEST_ID_COUNTER, sessions, buffer, incomplete_read_count,
                   timed_out_ids, stream, sent, fragments, peer_closed, pc, cur,
                   acc, rx, result>>
    /\ UNCHANGED <<ffi_vars, codec_vars>>

\* The program opens one connection, the one FOCUS names.
NextFfi ==
    \/ next_conn_id = FOCUS /\ create_and_connect
    \/ worker_connect
    \/ connect_returns
    \/ connect_timeout
    \/ \E cmd \in SubmitCommands \cup SessionCommands :
          \E sid \in 1..(next_session_id - 1) : get_session(cmd, sid)
    \/ \E t \in Submitting : submit(t.cmd, SessionEntry(t.sid, t.session))
    \/ \E request_id \in 1..MaxSubmits : try_recv_response(request_id)
    \/ blocking_call("CloneSession", SessionEntry(0, <<>>))
    \/ \E t \in Calling : blocking_call(t.cmd, SessionEntry(t.sid, t.session))
    \/ blocking_return
    \/ \E t \in Holding : add_session(t)
    \/ \E t \in Holding : remove_session(t)
    \/ blocking_timeout
    \/ \E id \in 1..MaxWorkers : remove_connection(id)
    \/ worker_recv
    \/ worker_socket_write
    \/ worker_socket_write_error
    \/ worker_socket_read
    \/ worker_timeout
    \/ peer_answer

SpecFfi == Init /\ [][NextFfi]_vars

\* The same program with a caller that keeps polling for the response of its
\* last submission, whatever else it does: a function that waits with the
\* lock held returns after 30 seconds at the latest, and every call of
\* try_recv_response returns.
SpecFfiPoll ==
    /\ Init
    /\ [][NextFfi]_vars
    /\ WF_vars(blocking_return \/ blocking_timeout)
    /\ WF_vars(connect_returns \/ connect_timeout)
    /\ WF_vars(try_recv_response(MaxSubmits))

\* The specification of the registry: a program that opens and closes
\* several connections and clones sessions on the first of them.
NextRegistry ==
    \/ create_and_connect
    \/ worker_connect
    \/ connect_returns
    \/ connect_timeout
    \/ \E id \in 1..MaxWorkers : remove_connection(id)
    \/ blocking_call("CloneSession", SessionEntry(0, <<>>))
    \/ blocking_return
    \/ \E t \in Holding : add_session(t)
    \/ blocking_timeout
    \/ worker_recv
    \/ worker_socket_write
    \/ worker_socket_read
    \/ worker_timeout
    \/ peer_answer

SpecRegistry == Init /\ [][NextRegistry]_vars

(***************************************************************************)
(* The specification of the codec: encode_request, find_bencode_end and     *)
(* decode_response called on their own, as the tests of codec.rs and        *)
(* tests/error_paths.rs call them.  The input is a Request, two encoded      *)
(* messages one after the other, or bytes that begin a bencode string.      *)
(***************************************************************************)
\* A string of n bytes.
Str(n) == [i \in 1..n |-> "x"]

Concat(parts) == IF parts = <<>> THEN <<>>
                 ELSE IF Len(parts) = 1 THEN parts[1]
                 ELSE IF Len(parts) = 2 THEN parts[1] \o parts[2]
                 ELSE parts[1] \o parts[2] \o parts[3] \o parts[4]

\* Strings a caller may evaluate: empty, bytes that look like bencode, and
\* strings at and above MAX_STRING_LENGTH.
CodeInputs == {None, Some(<<>>), Some(<<"e">>), Some(<<"3", ":", "a">>),
               Some(<<"i", "1", "e">>), Some(Str(MAX_STRING_LENGTH)),
               Some(Str(MAX_STRING_LENGTH + 1))}

Requests ==
    {[base_request(op, ReqId(1)) EXCEPT !.session = session, !.code = code,
                                        !.line = line, !.verbose = verbose,
                                        !.middleware = middleware] :
        op \in {<<"e", "v", "a", "l">>, <<"d", "e", "s", "c", "r", "i", "b", "e">>},
        session \in {None, Some(S1)},
        code \in CodeInputs,
        line \in {None, Some(0), Some(7), Some(0 - 12)},
        verbose \in {None, Some(TRUE), Some(FALSE)},
        middleware \in {None, Some(<<>>), Some(<<<<"a">>, <<"b", "e">>>>)}}

\* Valid messages: the peer's answers to two requests.
ValidMsgs == {EncodeMsg(m) : m \in PeerMsgs(ReqId(1)) \cup ChunkMsgs(ReqId(2))}

\* Bytes in which a string begins: what comes before it, the digits of its
\* length, the colon, and the bytes after the colon.
LenDigits == {<<"1">>, <<"5">>, <<"0", "5">>, <<"9", "9", "9", "9">>,
              ToDigits(MAX_STRING_LENGTH), ToDigits(MAX_STRING_LENGTH + 1),
              <<"9", "9", "9", "9", "9", "9", "9", "9", "9">>,
              U64MaxDigits,
              <<"1","8","4","4","6","7","4","4","0","7",
                "3","7","0","9","5","5","1","6","1","6">>,
              <<"9","9","9","9","9","9","9","9","9","9","9",
                "9","9","9","9","9","9","9","9","9","9">>}
Leads == {<<>>, <<"l">>, <<"d", "2", ":", "i", "d">>}
Payloads == {<<>>, <<"x">>, <<"s", "h", "o", "r", "t">>, Str(MAX_STRING_LENGTH + 1)}

CodecInputs ==
    {[kind |-> "request", request |-> r, parts |-> <<>>] : r \in Requests}
    \cup {[kind |-> "messages", request |-> <<>>, parts |-> <<m1, m2>>] :
             m1 \in ValidMsgs, m2 \in ValidMsgs}
    \cup {[kind |-> "string", request |-> <<>>, parts |-> <<lead, digits, <<":">>, payload>>] :
             lead \in Leads, digits \in LenDigits, payload \in Payloads}

InitCodec ==
    /\ InitProgram
    /\ input \in CodecInputs
    /\ data = IF input.kind = "request" THEN <<>> ELSE Concat(input.parts)
    /\ scan_out = <<>>
    /\ decode_out = <<>>

\* let encoded = encode_request(&request)
encode ==
    /\ input.kind = "request"
    /\ data = <<>>
    /\ data' = encode_request(input.request)
    /\ UNCHANGED <<input, scan_out, decode_out>>
    /\ ClientUnchanged
    /\ UNCHANGED ffi_vars

\* find_bencode_end(data, 0)
scan ==
    /\ data # <<>>
    /\ scan_out = <<>>
    /\ decode_out = <<>>
    /\ scan_out' = <<find_bencode_end(data, 0)>>
    /\ UNCHANGED <<input, data, decode_out>>
    /\ ClientUnchanged
    /\ UNCHANGED ffi_vars

\* The bytes the calls of decode_response so far have consumed.
Consumed(outs) == IF outs = <<>> THEN 0 ELSE outs[1].consumed

\* decode_response(&data), and after it decode_response(&data[consumed..])
decode ==
    /\ data # <<>>
    /\ scan_out = <<>>
    /\ Len(decode_out) < 2
    /\ decode_out # <<>> => decode_out[1].ok
    /\ decode_out' = Append(decode_out,
                            decode_response(Slice(data, Consumed(decode_out), Len(data))))
    /\ UNCHANGED <<input, data, scan_out>>
    /\ ClientUnchanged
    /\ UNCHANGED ffi_vars

NextCodec ==
    \/ encode
    \/ scan
    \/ decode

SpecCodec == InitCodec /\ [][NextCodec]_vars

(***************************************************************************)
(* Properties                                                               *)
(***************************************************************************)
\* The operations that check the session id before anything else.
ValidatingOps == {"eval", "load_file", "interrupt", "stdin", "completions", "lookup"}

\* A step in which the caller invokes an operation: the client is idle and
\* the step is not one of the peer's.
CallStep == pc = "idle" /\ UNCHANGED <<wire, peer_closed, nmsgs>>

\* The responses of rs that carry id, in order.
RECURSIVE Matching(_, _)
Matching(rs, id) ==
    IF rs = <<>> THEN <<>>
    ELSE (IF Head(rs).id = id THEN <<Head(rs)>> ELSE <<>>) \o Matching(Tail(rs), id)

\* The out chunks and the err chunks of rs, in order.
RECURSIVE OutChunks(_)
OutChunks(rs) ==
    IF rs = <<>> THEN <<>> ELSE Head(rs).out \o OutChunks(Tail(rs))

RECURSIVE ErrChunks(_)
ErrChunks(rs) ==
    IF rs = <<>> THEN <<>> ELSE Head(rs).err \o ErrChunks(Tail(rs))

\* The last value and the last ns that rs carries, None if it carries none.
RECURSIVE LastValue(_)
LastValue(rs) ==
    IF rs = <<>> THEN None
    ELSE IF rs[Len(rs)].value # None THEN rs[Len(rs)].value
    ELSE LastValue(SubSeq(rs, 1, Len(rs) - 1))

RECURSIVE LastNs(_)
LastNs(rs) ==
    IF rs = <<>> THEN None
    ELSE IF rs[Len(rs)].ns # None THEN rs[Len(rs)].ns
    ELSE LastNs(SubSeq(rs, 1, Len(rs) - 1))

\* The evaluation result that the responses rs amount to.
EvalOf(rs) == [value |-> LastValue(rs), output |-> OutChunks(rs),
               error |-> ErrChunks(rs), ns |-> LastNs(rs)]

\* C1: a response that carries the id of an eval request that timed out is
\* discarded when it arrives during a later operation: no result is built
\* from it, whatever the later operation is.
C1_LateResponseDiscarded == result.used \cap timed_out_ids = {}

C3_UnknownSessionRejected ==
    [][(CallStep /\ cur'.op \in ValidatingOps /\ cur'.session \notin sessions)
         => /\ pc' = "idle"
            /\ result'.kind = "SessionNotFound"
            /\ result'.op = cur'.op
            /\ result'.value.session = cur'.session
            /\ sent' = sent
            /\ REQUEST_ID_COUNTER' = REQUEST_ID_COUNTER
            /\ sessions' = sessions]_vars

\* C3: interrupt is refused for a session that was registered and has been
\* closed since, after the close request was the only one sent.
C3_Witness ==
    /\ result.kind = "SessionNotFound"
    /\ result.op = "interrupt"
    /\ result.session = S1
    /\ S1 \notin sessions
    /\ Len(sent) = 1

\* C4: close_session, called with a session id that is not in the registry,
\* fails with SessionNotFound and sends nothing.
C4_CloseUnknownRejected ==
    [][(CallStep /\ cur'.op = "close_session" /\ cur'.session \notin sessions)
         => (pc' = "idle" /\ result'.kind = "SessionNotFound" /\ sent' = sent)]_vars

\* C5: eval and load_file return the fold of the responses that carry the
\* request's id, up to and including the first one with status done: the out
\* chunks in arrival order, the err chunks in arrival order, the last value
\* and the last ns.
C5_EvalFoldsOwnResponses ==
    (pc = "idle" /\ result.op \in AccOps /\ result.kind = "Ok")
      => LET own == Matching(rx, result.id) IN
         /\ own # <<>>
         /\ IsDone(own[Len(own)])
         /\ \A i \in 1..(Len(own) - 1) : ~IsDone(own[i])
         /\ result.value.eval = EvalOf(own)

\* C5: an eval has returned two output chunks in arrival order and the value
\* of the final response, which replaced the value of an earlier one.
C5_Witness ==
    /\ pc = "idle" /\ result.op = "eval" /\ result.kind = "Ok"
    /\ Len(Matching(rx, result.id)) = 2
    /\ Matching(rx, result.id)[1].value = Some(<<"7">>)
    /\ result.value.eval.output = << <<"a">>, <<"c">> >>
    /\ result.value.eval.value = Some(<<"3">>)
    /\ result.value.eval.ns = Some(<<"u">>)

\* C6: while eval or load_file waits, the accumulated result is the fold of
\* the responses with the request's own id only (a response with another id
\* changes nothing), and the operation returns on the done response for its
\* own id.
C6_OtherIdsSkipped ==
    /\ (pc = "read" /\ cur.op \in AccOps)
         => /\ acc.result = EvalOf(Matching(rx, cur.id))
            /\ \A i \in 1..Len(rx) : rx[i].id = cur.id => ~IsDone(rx[i])
    /\ (pc = "idle" /\ result.op \in AccOps /\ result.kind = "Ok")
         => /\ rx # <<>>
            /\ rx[Len(rx)].id = result.id
            /\ IsDone(rx[Len(rx)])
            /\ result.used = {result.id}

\* C6: an eval has returned after reading a final response for another
\* request's id and then the final response for its own.
C6_Witness ==
    /\ pc = "idle" /\ result.op = "eval" /\ result.kind = "Ok"
    /\ Len(rx) = 2
    /\ rx[1].id # result.id /\ rx[1].id \notin timed_out_ids /\ IsDone(rx[1])
    /\ rx[1].value # None
    /\ rx[2].id = result.id
    /\ result.value.eval = EvalOf(<<rx[2]>>)

\* The outcomes that are an error other than a Connection error.
OtherErrors == {"Codec", "Protocol", "SessionNotFound", "OperationFailed", "Timeout"}

\* The operations that read responses until they have their answer.
WaitingOps == SingleOps \cup AccOps \cup AckOps

\* The responses that bytes is the concatenation of, if it is one.
RECURSIVE DecodeAll(_)
DecodeAll(bytes) ==
    IF bytes = <<>> THEN [ok |-> TRUE, resps |-> <<>>]
    ELSE LET d == decode_response(bytes) IN
         IF ~d.ok THEN [ok |-> FALSE, resps |-> <<>>]
         ELSE LET rest == DecodeAll(Slice(bytes, d.consumed, Len(bytes))) IN
              [ok |-> rest.ok, resps |-> <<d.resp>> \o rest.resps]

\* Everything the current call has read is complete, well-formed responses,
\* and those that carry its request id are an answer to it: for eval and
\* load_file any responses and then a final one, for the others one final
\* response (with the new session for clone, without err for interrupt and
\* close).
WellFormedAnswer ==
    LET rest == DecodeAll(buffer)
        own == Matching(rx \o rest.resps, cur.id) IN
    /\ rest.ok
    /\ own # <<>>
    /\ IsDone(own[Len(own)])
    /\ \A i \in 1..(Len(own) - 1) : ~IsDone(own[i])
    /\ cur.op \notin AccOps => Len(own) = 1
    /\ cur.op \in AckOps => own[1].err = None
    /\ cur.op = "clone_session" => own[1].new_session # None

\* C7: after an operation has failed with an error other than a Connection
\* error, the next operation, for which complete, well-formed responses
\* arrive, returns successfully with the result of its own responses.
C7_UsableAfterError ==
    (cur.after \in OtherErrors /\ cur.op \in WaitingOps /\ cur.id # <<>>
       /\ WellFormedAnswer)
      => (pc = "idle" /\ result.kind = "Ok" /\ result.id = cur.id
          /\ result.used = {cur.id})

\* C8: an operation that has failed with Timeout left the connection open
\* and its request id marked as timed out.
C8_TimeoutMarksId ==
    (pc = "idle" /\ result.kind = "Timeout")
      => (stream = "open" /\ result.id \in timed_out_ids)

\* C9: every operation that waits for the peer runs under a deadline: while
\* a read is pending, the deadline can pass and end the wait.
C9_EveryWaitHasDeadline == pc = "read" => ENABLED timeout

\* C10: the client goes on to read from the socket only when the buffer is
\* empty or ends before its first value does; front bytes that can never
\* start a value (an illegal leading byte, a string length over the limit)
\* abort the operation instead.
C10_InvalidFrontAborts ==
    pc = "read" =>
      \/ buffer = <<>>
      \/ decode_response(buffer).err.msg \in IncompleteMsgs

\* The combined size of the out and err chunks of rs.
RECURSIVE SizeOf(_)
SizeOf(chunks) == IF chunks = <<>> THEN 0 ELSE Len(Head(chunks)) + SizeOf(Tail(chunks))

TotalSize(rs) == SizeOf(OutChunks(rs)) + SizeOf(ErrChunks(rs))

\* An eval or load_file has returned on a response that carries its id: with
\* its result, or because that response tripped a limit.
ReturnedOnOwn == pc = "idle" /\ result.op \in AccOps /\ result.used = {result.id}

\* C11 as stated: an eval that has returned on a response of its own after
\* exactly MAX_OUTPUT_ENTRIES out chunks has succeeded with all of them in
\* output, whatever their size and whatever else its responses carry, and
\* one that has returned after MAX_OUTPUT_ENTRIES + 1 out chunks has failed
\* with the Protocol error of the entry limit.
C11_EntryLimitAlone ==
    ReturnedOnOwn =>
      LET own == Matching(rx, result.id)
          n == Len(OutChunks(own)) IN
      /\ n = MAX_OUTPUT_ENTRIES + 1
           => /\ result.kind = "Protocol"
              /\ result.msg = "Output exceeded maximum entries limit"
      /\ n = MAX_OUTPUT_ENTRIES
           => /\ result.kind = "Ok"
              /\ result.value.eval.output = OutChunks(own)

\* C11, amended: the output of an eval never holds more than
\* MAX_OUTPUT_ENTRIES entries.  An eval whose responses carry
\* MAX_OUTPUT_ENTRIES + 1 out chunks fails with the Protocol error of the
\* entry limit; one whose responses carry at most MAX_OUTPUT_ENTRIES out
\* chunks, and stay within the limit of err entries and of the combined
\* size, succeeds with every chunk in output.
C11_EntryLimitExact ==
    /\ Len(acc.result.output) <= MAX_OUTPUT_ENTRIES
    /\ Len(result.value.eval.output) <= MAX_OUTPUT_ENTRIES
    /\ ReturnedOnOwn =>
         LET own == Matching(rx, result.id)
             n == Len(OutChunks(own)) IN
         /\ n <= MAX_OUTPUT_ENTRIES + 1
         /\ n = MAX_OUTPUT_ENTRIES + 1
              => /\ result.kind = "Protocol"
                 /\ result.msg = "Output exceeded maximum entries limit"
         /\ (/\ n <= MAX_OUTPUT_ENTRIES
             /\ Len(ErrChunks(own)) <= MAX_OUTPUT_ENTRIES
             /\ TotalSize(own) <= MAX_OUTPUT_TOTAL_SIZE)
              => /\ result.kind = "Ok"
                 /\ result.value.eval.output = OutChunks(own)

\* C11: an eval was refused on the out chunk after the MAX_OUTPUT_ENTRIES-th,
\* all chunks together being within the size limit.
C11_Witness ==
    /\ ReturnedOnOwn /\ result.op = "eval" /\ result.kind = "Protocol"
    /\ Len(OutChunks(Matching(rx, result.id))) = MAX_OUTPUT_ENTRIES + 1
    /\ TotalSize(Matching(rx, result.id)) <= MAX_OUTPUT_TOTAL_SIZE

\* The combined size of the fragments an evaluation result holds.
ResultSize(res) == SizeOf(res.output) + SizeOf(res.error)

\* C12: during an eval or load_file, and in its result, the combined size of
\* the accumulated out and err fragments is what total_output_size counts and
\* is at most MAX_OUTPUT_TOTAL_SIZE; an operation whose responses carry
\* fragments of a larger combined size fails with a Protocol error and
\* returns no fragment.
C12_TotalSizeBounded ==
    /\ ResultSize(acc.result) = acc.total_output_size
    /\ acc.total_output_size <= MAX_OUTPUT_TOTAL_SIZE
    /\ ResultSize(result.value.eval) <= MAX_OUTPUT_TOTAL_SIZE
    /\ (ReturnedOnOwn /\ TotalSize(Matching(rx, result.id)) > MAX_OUTPUT_TOTAL_SIZE)
         => /\ result.kind = "Protocol"
            /\ result.value.eval = EvalResultNew

\* C12: a load_file whose out fragments fill the limit exactly was refused
\* on the err fragment that came next.
C12_Witness ==
    /\ ReturnedOnOwn /\ result.op = "load_file" /\ result.kind = "Protocol"
    /\ result.msg = "Error output exceeded maximum total size"
    /\ SizeOf(OutChunks(Matching(rx, result.id))) = MAX_OUTPUT_TOTAL_SIZE
    /\ Len(ErrChunks(Matching(rx, result.id))) = 1

\* A step in which stream.read() returns bytes, and their number.
ReadStep == pc = "read" /\ Len(wire') < Len(wire)
BytesRead == Len(wire) - Len(wire')

\* C13: the receive buffer never holds more than MAX_RESPONSE_SIZE bytes: a
\* socket read whose bytes would take it over the limit appends nothing and
\* fails the operation with a Protocol error, any other read appends exactly
\* the bytes read before the next decode.
C13_BufferBounded ==
    /\ [](Len(buffer) <= MAX_RESPONSE_SIZE)
    /\ [][ReadStep =>
            IF Len(buffer) + BytesRead > MAX_RESPONSE_SIZE
            THEN /\ buffer' = buffer
                 /\ pc' = "idle"
                 /\ result'.kind = "Protocol"
                 /\ result'.msg = "Response would exceed maximum size"
            ELSE pc' = "idle" => result'.msg # "Response would exceed maximum size"]_vars

\* C13: an eval has failed on a read that would have taken the buffer, which
\* held the first byte of the message, over the limit.
C13_Witness ==
    /\ pc = "idle" /\ result.kind = "Protocol"
    /\ result.msg = "Response would exceed maximum size"
    /\ result.op = "eval"
    /\ buffer = <<"d">>

\* The responses still to come: those of the bytes that are in the buffer
\* and on the wire.
Pending == DecodeAll(buffer \o wire)

\* C14: when complete, well-formed responses of less than MAX_RESPONSE_SIZE
\* bytes in all are in the buffer and on the wire, the read loop has not
\* given up on them: however their bytes were split across reads, the
\* operation that reads them has not failed for incomplete reads.
C14_SplitResponseDecoded ==
    (Pending.ok /\ Len(buffer \o wire) < MAX_RESPONSE_SIZE)
      => ~(pc = "idle" /\ result.kind = "Protocol"
           /\ result.msg = "Too many incomplete reads")

\* The buffer as a socket read leaves it before the next decode attempt.
BufferRead == buffer \o SubSeq(wire, 1, BytesRead)

\* C15: a read is pending only while the counter of incomplete reads is at
\* most MAX_INCOMPLETE_READS.  A socket read after which the message at the
\* front of the buffer is still incomplete adds one to the counter, and then
\* the operation fails with a Protocol error if the counter exceeds
\* MAX_INCOMPLETE_READS and goes on to exactly one more read if not.
C15_IncompleteReadsBounded ==
    /\ [](pc = "read" => incomplete_read_count <= MAX_INCOMPLETE_READS)
    /\ [][(ReadStep /\ ~decode_response(BufferRead).ok)
            => /\ buffer' = BufferRead
               /\ incomplete_read_count' = incomplete_read_count + 1
               /\ IF incomplete_read_count' > MAX_INCOMPLETE_READS
                  THEN /\ pc' = "idle"
                       /\ result'.kind = "Protocol"
                       /\ result'.msg = "Too many incomplete reads"
                  ELSE /\ pc' = "read"
                       /\ result' = result]_vars

\* C15: an operation has failed on the read after the MAX_INCOMPLETE_READS-th
\* incomplete one, with the front message still incomplete in the buffer.
C15_Witness ==
    /\ pc = "idle" /\ result.kind = "Protocol"
    /\ result.msg = "Too many incomplete reads"
    /\ incomplete_read_count = MAX_INCOMPLETE_READS + 1
    /\ decode_response(buffer).err.msg \in IncompleteMsgs

\* A step of the client, and one in which a call goes on.
ClientStep == wire' = wire \/ ReadStep
SameCall == pc = "read" /\ cur'.id = cur.id

\* The next state's responses still to come.
PendingNext == DecodeAll(buffer' \o wire')

\* C16: read_response returns the responses in the order of their bytes on
\* the stream, each once, however the bytes are split or coalesced across
\* reads: in every step of the client the responses the call has been given
\* so far, followed by those of the bytes still in the buffer and on the
\* wire, are what they were before the step (a new call starts with none
\* given), and the bytes themselves only lose a prefix.
C16_ArrivalOrder ==
    [][ClientStep =>
         /\ Pending.ok /\ PendingNext.ok
         /\ \E k \in 0..Len(buffer \o wire) :
               buffer' \o wire' = Slice(buffer \o wire, k, Len(buffer \o wire))
         /\ IF SameCall
            THEN rx' \o PendingNext.resps = rx \o Pending.resps
            ELSE rx' \o PendingNext.resps = Pending.resps]_vars

\* C16: an eval has returned on its final response, which arrived in one
\* read together with a second response, and the bytes of the second are in
\* the buffer for the next call.
C16_Witness ==
    /\ pc = "idle" /\ result.op = "eval" /\ result.kind = "Ok"
    /\ Len(rx) = 1
    /\ wire = <<>>
    /\ Pending.ok /\ Len(Pending.resps) = 1
    /\ Pending.resps[1].out = Some(<<"a">>)

\* A step in which a call of op returns.
Returns(op) == pc' = "idle" /\ result' # result /\ result'.op = op

\* C17: a close_session that succeeds removes the id of its session from the
\* registry and no other: every other tracked session is tracked afterwards,
\* and so passes the session check of later operations.
C17_CloseRemovesOnlyItsSession ==
    [][(Returns("close_session") /\ result'.kind = "Ok")
         => /\ sessions' = sessions \ {result'.session}
            /\ \A s \in sessions \ {result'.session} : validate_session(Client', s)]_vars

\* C17: close_session of S1 has succeeded and S2, tracked as well, still is.
C17_Witness ==
    /\ pc = "idle" /\ result.op = "close_session" /\ result.kind = "Ok"
    /\ result.session = S1
    /\ sessions = {S2}

\* C18: an id enters the registry only as the new-session field of a
\* response that clone_session has read on this connection; no call of the
\* client's user puts an id of their own choosing there, so such an id never
\* passes the session check.
C18_RegistryOnlyServerIssued ==
    [][\A s \in sessions' \ sessions :
          /\ Returns("clone_session")
          /\ result'.kind = "Ok"
          /\ rx' # <<>>
          /\ rx'[Len(rx')].new_session = Some(s)]_vars

\* C19: clone_session returns Ok only when the response to its request
\* carries new-session, and then that id is what it returns and what the
\* registry gains; when the response to its request carries no new-session
\* it fails with a Protocol error; when it fails the registry is unchanged.
C19_CloneNeedsNewSession ==
    [][Returns("clone_session") =>
         LET own == Matching(rx', result'.id) IN
         /\ result'.kind = "Ok"
              => /\ own # <<>>
                 /\ own[1].new_session # None
                 /\ result'.value.session = own[1].new_session[1]
                 /\ sessions' = sessions \cup {own[1].new_session[1]}
         /\ result'.kind # "Ok" => sessions' = sessions
         /\ (own # <<>> /\ own[1].new_session = None)
              => result'.kind = "Protocol"]_vars

\* C20: interrupt and close_session wait while the responses that carry
\* their request's id have neither err nor done, and skip the others; they
\* return on the first response with their id that has err or done, with
\* OperationFailed if it has err and with success if not.
C20_AckLoop ==
    /\ (pc = "read" /\ cur.op \in AckOps)
         => \A i \in 1..Len(rx) :
               rx[i].id = cur.id => (rx[i].err = None /\ ~IsDone(rx[i]))
    /\ (pc = "idle" /\ result.op \in AckOps /\ result.kind \in {"Ok", "OperationFailed"})
         => LET own == Matching(rx, result.id) IN
            /\ own # <<>>
            /\ rx[Len(rx)] = own[Len(own)]
            /\ result.used = {result.id}
            /\ \A i \in 1..(Len(own) - 1) : own[i].err = None /\ ~IsDone(own[i])
            /\ IF own[Len(own)].err # None
               THEN result.kind = "OperationFailed"
               ELSE result.kind = "Ok" /\ IsDone(own[Len(own)])

\* C20: an interrupt has skipped the final response of another request and
\* failed on the response with its own id, which carried err.
C20_Witness ==
    /\ pc = "idle" /\ result.op = "interrupt" /\ result.kind = "OperationFailed"
    /\ Len(rx) = 2
    /\ rx[1].id # result.id /\ IsDone(rx[1])
    /\ rx[2].id = result.id /\ rx[2].err # None

\* The sessions a shutdown has still to close before a step: all tracked
\* ones when it is called, the rest of its list afterwards.
ToClose == IF pc = "idle" THEN Cardinality(sessions) ELSE Len(cur.todo)

\* C21: shutdown builds a close request for every session that is tracked
\* when it is called and begins to write it, whatever becomes of the close
\* requests before it, and then shuts the stream down: while it runs it never
\* returns early, every session taken off its list has had its close request
\* begun, and the stream is shut down when, and only when, the list is empty.
C21_ShutdownBestEffort ==
    [][(ClientStep /\ cur'.op = "shutdown")
         => /\ pc' \in {"write", "read", "closed"}
            /\ Requested' - Requested = ToClose - Len(cur'.todo)
            /\ pc' = "closed" => (cur'.todo = <<>> /\ stream' = "shutdown")
            /\ pc' \in {"write", "read"} => stream' = "open"]_vars

\* C21: a shutdown with two tracked sessions has sent both close requests
\* and shut the stream down although neither close succeeded.
C21_Witness ==
    /\ pc = "closed" /\ stream = "shutdown"
    /\ sessions = {S1, S2}
    /\ Len(sent) = 2

(***************************************************************************)
(* Request ids                                                              *)
(***************************************************************************)
\* The counter value an id was formatted from.
CounterOf(id) == DigitsValue(SubSeq(id, 5, Len(id)))

\* C23: the requests written on the connection carry pairwise different ids,
\* and each was formatted from a larger counter value than the one before it.
C23_IdsUniqueIncreasing ==
    \A i \in 1..Len(sent) : \A j \in 1..Len(sent) :
        i < j => (sent[i] # sent[j] /\ CounterOf(sent[i]) < CounterOf(sent[j]))

\* Two requests were written, and another client took the id between theirs.
C23_Witness ==
    /\ Len(sent) = 2
    /\ CounterOf(sent[2]) = CounterOf(sent[1]) + 2

\* C24: the ids issued on the connection do not depend on what other clients
\* of the process do.  With no other client the k-th request of the
\* connection carries the id req-k (that behaviour is one of the
\* specification's), so independence means that it carries req-k in every
\* behaviour.
C24_IdsIndependentOfOthers ==
    \A k \in 1..Len(sent) : sent[k] = ReqId(k)

\* C25: stdin returns Ok only after read_response has returned a response
\* with the id of its request.
C25_StdinWaitsForResponse ==
    [][(Returns("stdin") /\ result'.kind = "Ok")
         => \E i \in 1..Len(rx') : rx'[i].id = result'.id]_vars

\* What the operation that awaited the response returned: for
\* test_connectivity that operation is its call of describe.
AwaitedKind(res) == IF res.op = "test_connectivity" THEN res.value.described ELSE res.kind

\* C27: while an operation waits in stream.read(), the peer has closed and no
\* byte is left, the read returns zero bytes, and the only steps are that
\* return and the passing of the deadline: the operation then returns at
\* once, with a Connection error unless its deadline passed first; it neither
\* goes on reading nor reports another error.  test_connectivity reports the
\* Connection error of its describe as Ok(false).
C27_EofIsConnectionError ==
    [][(pc = "read" /\ cur.op # "shutdown" /\ peer_closed /\ wire = <<>>)
         => /\ pc' = "idle"
            /\ result'.id = cur.id
            /\ \/ AwaitedKind(result') = "Connection"
               \/ cur.deadline /\ AwaitedKind(result') = "Timeout"
            /\ result'.op = "test_connectivity" => ~result'.value.responding]_vars

\* An evaluation failed with a Connection error after the peer closed.
C27_Witness ==
    /\ pc = "idle" /\ peer_closed
    /\ result.op = "eval" /\ result.kind = "Connection"

(***************************************************************************)
(* The worker of the FFI layer                                              *)
(***************************************************************************)
\* C22: a request is built only when no operation is writing its request or
\* waiting for responses (inside shutdown: when the close before it has
\* ended), the request that reaches the socket is that of the one operation
\* in progress, and the worker takes a command from its queue only when no
\* operation is in progress, however many commands are queued.
C22_SingleOutstandingRequest ==
    [][/\ REQUEST_ID_COUNTER' # REQUEST_ID_COUNTER => (pc = "idle" \/ cur.op = "shutdown")
       /\ sent' # sent => (pc = "write" /\ sent' = Append(sent, cur.id))
       /\ Len(commands') < Len(commands) => pc = "idle"]_vars

\* An evaluation is waiting for its responses while a second one is queued.
C22_Witness ==
    /\ pc = "read" /\ wcmd.cmd = "Eval"
    /\ \E i \in 1..Len(commands) : commands[i].cmd = "Eval"

QueuedInterrupts(q) == {i \in 1..Len(q) : q[i].cmd = "Interrupt"}

\* C26: while an evaluation is writing its request or waiting for its
\* responses no other request is built or written to the socket and every
\* queued Interrupt command stays in the queue; an interrupt can be written
\* only after the evaluation has returned.
C26_InterruptWaitsForEval ==
    [][(pc \in {"write", "read"} /\ cur.op = "eval")
         => /\ REQUEST_ID_COUNTER' = REQUEST_ID_COUNTER
            /\ sent' = sent \/ (pc = "write" /\ sent' = Append(sent, cur.id))
            /\ QueuedInterrupts(commands) \subseteq QueuedInterrupts(commands')]_vars

\* nrepl_interrupt is waiting for the worker while the evaluation runs.
C26_Witness ==
    /\ pc = "read" /\ cur.op = "eval"
    /\ caller.cmd = "Interrupt"
    /\ QueuedInterrupts(commands) # {}

\* The worker has sent the response of the request, and the caller has not
\* collected it.
Produced(request_id) ==
    \/ \E i \in 1..Len(responses) : responses[i].request_id = request_id
    \/ \E r \in pending_responses : r.request_id = request_id

\* C28: once the worker has produced the response of a submitted request, a
\* caller that keeps polling for it receives it (unless the connection is
\* closed first), whether or not the responses of other requests are ever
\* collected.
C28_PolledResponseArrives ==
    [](Produced(MaxSubmits) => <>(MaxSubmits \in collected \/ FOCUS \notin connections))

\* C29: when the worker thread of a connection has exited, the client's
\* shutdown has run: the tracked sessions had their close requests and the
\* stream is shut down.
C29_ShutdownBeforeExit ==
    worker = "exited" => (stream = "shutdown" /\ pc = "closed")

\* C30: the registry holds at most MAX_CONNECTIONS connections, and no
\* create_and_connect waits for its worker while the registry is full; on a
\* full registry create_and_connect returns a Protocol error, spawns no
\* worker and adds nothing; on a registry that is not full it can spawn a
\* worker, and when that worker has connected it adds the connection.
C30_ConnectionLimit ==
    /\ [](Cardinality(connections) <= MAX_CONNECTIONS)
    /\ [](caller.cmd = "Connect" => Cardinality(connections) < MAX_CONNECTIONS)
    /\ [][Cardinality(connections) >= MAX_CONNECTIONS
            => /\ connections' \subseteq connections
               /\ workers_spawned' = workers_spawned
               /\ caller'.cmd # "Connect"
               /\ (ffi_result' # ffi_result /\ ffi_result'.op = "create_and_connect")
                    => ffi_result'.kind = "Protocol"]_vars
    /\ []((Cardinality(connections) < MAX_CONNECTIONS /\ caller = NoCaller
           /\ workers_spawned < MaxWorkers /\ Running < MaxThreads)
            => ENABLED (create_and_connect /\ caller'.cmd = "Connect"
                        /\ workers_spawned' = workers_spawned + 1))
    /\ []((caller.cmd = "Connect" /\ reply = NoReply)
            => ENABLED (worker_connect /\ reply'.kind = "Ok"))
    /\ []((caller.cmd = "Connect" /\ reply.kind = "Ok")
            => ENABLED (connect_returns /\ ffi_result'.kind = "Ok"
                        /\ Cardinality(connections') = Cardinality(connections) + 1))

\* A connect succeeded after the registry had been full and a connection had
\* been removed from it.
C30_Witness ==
    /\ next_conn_id = MAX_CONNECTIONS + 2
    /\ Cardinality(connections) = MAX_CONNECTIONS
    /\ ffi_result = FfiResult("create_and_connect", "Ok")

\* A step of a create_and_connect, or one taken while it waits for its
\* worker: the function begins, waits, returns, or has found the registry
\* full.
ConnectStep ==
    \/ caller.cmd = "Connect"
    \/ caller'.cmd = "Connect"
    \/ ffi_result' # ffi_result /\ ffi_result'.op = "create_and_connect"

\* The step in which create_and_connect returns Ok.
ConnectOk ==
    /\ caller.cmd = "Connect"
    /\ caller' = NoCaller
    /\ ffi_result' = FfiResult("create_and_connect", "Ok")

\* C31: a create_and_connect that fails (a full registry, a worker that
\* cannot connect, a worker that does not answer in time) leaves the registry
\* as it was, from its call to its return: no entry is added and
\* next_conn_id keeps its value.  One that succeeds adds
\* the entry next_conn_id and steps next_conn_id by one, and no other step
\* changes next_conn_id or adds an entry, so the successful connects get the
\* ids 1, 2, 3, ... without a gap.
C31_FailedConnectKeepsRegistry ==
    /\ [](\A id \in connections : id < next_conn_id)
    /\ [][IF ConnectOk
          THEN /\ connections' = connections \cup {next_conn_id}
               /\ next_conn_id' = next_conn_id + 1
          ELSE /\ next_conn_id' = next_conn_id
               /\ connections' \subseteq connections
               /\ ConnectStep => connections' = connections]_vars

\* C31: the second create_and_connect has succeeded after the first had
\* failed, and its connection has the id 1.
C31_Witness ==
    /\ workers_spawned = 2
    /\ ffi_result = FfiResult("create_and_connect", "Ok")
    /\ connections = {1}
    /\ next_conn_id = 2

\* The responses a step takes out of the channel.
TakenFromChannel == {responses[i] : i \in 1..(Len(responses) - Len(responses'))}

\* C32: the buffer of a worker never holds more than MAX_PENDING_RESPONSES
\* responses.  While the connection exists a response leaves the channel only
\* in a step that starts with room in the buffer, and it is then in the
\* buffer or is the one the caller was given; so the responses that find no
\* room stay in the channel until a buffered one has been collected.
C32_PendingBounded ==
    /\ [](Cardinality(pending_responses) <= MAX_PENDING_RESPONSES)
    /\ [][(Len(responses') < Len(responses) /\ FOCUS \in connections')
           => /\ Cardinality(pending_responses) < MAX_PENDING_RESPONSES
              /\ \A r \in TakenFromChannel :
                    r \in pending_responses' \/ r.request_id \in collected' \ collected]_vars

\* C32: the buffer is full and a response is left in the channel.
C32_Witness ==
    /\ Cardinality(pending_responses) = MAX_PENDING_RESPONSES
    /\ responses # <<>>
    /\ FOCUS \in connections

\* The strings that a Request holds.
StringsOf(request) ==
    {request.op, request.id}
    \cup {request[f][1] : f \in {g \in DOMAIN request :
                                   /\ g \notin {"op", "id"} \cup IntFields \cup BoolFields
                                                \cup ListFields
                                   /\ request[g] # None}}
    \cup UNION {{request[f][1][i] : i \in 1..Len(request[f][1])} :
                  f \in {g \in ListFields : request[g] # None}}

\* The scan of an encoded Request ends at the end of the encoding.
ScannedWhole == scan_out[1].ok /\ scan_out[1].pos = Len(data)

\* C33 (as claimed): for any Request, find_bencode_end from offset 0 of
\* encode_request(request) returns the length of the encoding.
C33_ScanConsumesEncoding ==
    (input.kind = "request" /\ scan_out # <<>>) => ScannedWhole

\* C33 (amended): for any Request none of whose strings is longer than
\* MAX_STRING_LENGTH bytes, find_bencode_end from offset 0 of
\* encode_request(request) returns the length of the encoding; the scanner
\* rejects the encoding of a Request with a longer string.
C33_ScanConsumesBoundedEncoding ==
    (input.kind = "request" /\ scan_out # <<>>)
      => IF \A str \in StringsOf(input.request) : Len(str) <= MAX_STRING_LENGTH
         THEN ScannedWhole
         ELSE ~scan_out[1].ok

\* C33: the encoding of a Request with a code string of exactly
\* MAX_STRING_LENGTH bytes, a negative line, a flag and a list of two strings
\* has been scanned to its end.
C33_Witness ==
    /\ input.kind = "request" /\ scan_out # <<>>
    /\ input.request.code = Some(Str(MAX_STRING_LENGTH))
    /\ input.request.line = Some(0 - 12)
    /\ input.request.verbose = Some(TRUE)
    /\ input.request.middleware # None /\ Len(input.request.middleware[1]) = 2
    /\ ScannedWhole

\* A valid message: bytes that decode_response, given them alone, decodes
\* and consumes whole.
ValidMessage(m) == decode_response(m).ok /\ decode_response(m).consumed = Len(m)

\* The k-th call of decode_response has returned the message m.
DecodedIs(k, m) ==
    /\ decode_out[k].ok
    /\ decode_out[k].consumed = Len(m)
    /\ decode_out[k].resp = decode_response(m).resp

\* C34: for a buffer that is two valid messages m1 and m2 one after the
\* other, decode_response on the buffer returns the response of m1 with
\* consumed = Len(m1), and decode_response on the rest of the buffer returns
\* the response of m2 with consumed = Len(m2).
C34_TwoMessagesDecoded ==
    (/\ input.kind = "messages"
     /\ ValidMessage(input.parts[1]) /\ ValidMessage(input.parts[2]))
      => /\ Len(decode_out) >= 1 => DecodedIs(1, input.parts[1])
         /\ Len(decode_out) = 2 => DecodedIs(2, input.parts[2])

\* C34: two messages of different lengths and with different ids have been
\* decoded from one buffer, the first with output and a value, the second
\* with a status.
C34_Witness ==
    /\ input.kind = "messages" /\ Len(decode_out) = 2
    /\ ValidMessage(input.parts[1]) /\ ValidMessage(input.parts[2])
    /\ Len(input.parts[1]) # Len(input.parts[2])
    /\ decode_out[1].resp.id = ReqId(1) /\ decode_out[1].resp.value # None
    /\ decode_out[2].resp.id = ReqId(2) /\ IsDone(decode_out[2].resp)

\* The length that the digits ds claim; HugeLen stands for every length of
\* ten digits or more.
Claimed(ds) == IF Len(StripZeros(ds)) > 9 THEN HugeLen ELSE DigitsValue(StripZeros(ds))

\* find_bencode_end has been called on bytes in which a string begins: its
\* length prefix claims ClaimedLen bytes, and Remaining bytes follow the colon.
StringScanned == input.kind = "string" /\ scan_out # <<>>
ClaimedLen == Claimed(input.parts[2])
Remaining == Len(input.parts[4])
\* The offset of the first byte after the colon.
DataStart == Len(input.parts[1]) + Len(input.parts[2]) + 1

\* The Codec errors that reject a length prefix.
RejectedLength ==
    /\ ~scan_out[1].ok
    /\ scan_out[1].msg \in {"String length exceeds maximum allowed size",
                             "Invalid string length value"}

\* C35 (as claimed): whenever the length prefix of a string claims more
\* bytes than remain in the buffer, the scanner reports the incomplete
\* outcome, whatever the length claimed.
C35_ShortStringIncomplete ==
    (StringScanned /\ ClaimedLen > Remaining)
      => (~scan_out[1].ok /\ scan_out[1].msg \in IncompleteMsgs)

\* C35 (amended): whenever the length prefix of a string claims more bytes
\* than remain in the buffer, the scanner returns a Codec error: the
\* incomplete outcome "Incomplete string data" if the length claimed is at
\* most MAX_STRING_LENGTH, and a rejection of the length, which is not an
\* incomplete outcome, if it is more.
C35_ShortStringIncompleteUpToMax ==
    (StringScanned /\ ClaimedLen > Remaining)
      => IF ClaimedLen <= MAX_STRING_LENGTH
         THEN ~scan_out[1].ok /\ scan_out[1].msg = "Incomplete string data"
         ELSE RejectedLength /\ scan_out[1].msg \notin IncompleteMsgs

\* C35: a string inside a list claims MAX_STRING_LENGTH bytes, five bytes
\* follow, and the scan has reported incomplete string data.
C35_Witness ==
    /\ StringScanned
    /\ input.parts[1] = <<"l">>
    /\ ClaimedLen = MAX_STRING_LENGTH /\ Remaining = 5
    /\ ~scan_out[1].ok /\ scan_out[1].msg = "Incomplete string data"

\* C36: a string whose length prefix claims more than MAX_STRING_LENGTH
\* bytes is rejected with a Codec error at the offset of its first data byte,
\* and the result is that of the same bytes without any data: no byte after
\* the colon is looked at, whether the data is there or not.  No offset
\* wraps: a scan that succeeds ends inside the buffer, behind the data.
C36_LongStringRejected ==
    StringScanned
      => /\ ClaimedLen > MAX_STRING_LENGTH
              => /\ RejectedLength
                 /\ scan_out[1].pos = DataStart
                 /\ scan_out[1] = find_bencode_end(Slice(data, 0, DataStart), 0)
         /\ scan_out[1].ok
              => /\ scan_out[1].pos <= Len(data)
                 /\ scan_out[1].pos >= DataStart + ClaimedLen

\* C36: a string that claims MAX_STRING_LENGTH + 1 bytes, all of which are
\* in the buffer, has been rejected.
C36_Witness ==
    /\ StringScanned
    /\ ClaimedLen = MAX_STRING_LENGTH + 1 /\ Remaining = MAX_STRING_LENGTH + 1
    /\ RejectedLength

\* C37: while send_and_accumulate_responses waits for the responses of a
\* request, the id of that request is not in timed_out_ids, so no response
\* that carries it is discarded as the late response of a timed-out request:
\* no step of the call takes its id out of the set.
C37_CurrentIdNotTimedOut ==
    /\ []((pc = "read" /\ cur.op \in AccOps) => cur.id \notin timed_out_ids)
    /\ [][(pc = "read" /\ cur.op \in AccOps /\ pc' = "read")
           => cur.id \notin timed_out_ids']_vars

\* C37: an eval is waiting after an earlier eval has timed out, and a
\* response that carries its id has been read and folded into its result.
C37_Witness ==
    /\ pc = "read" /\ cur.op = "eval"
    /\ timed_out_ids # {}
    /\ \E i \in 1..Len(rx) : rx[i].id = cur.id
    /\ acc.result.output # <<>>

\* A step in which the call of op returns successfully.
ReturnsOk(op) ==
    pc' = "idle" /\ result'.kind = "Ok" /\ result'.op = op /\ result'.id = cur'.id

\* C38: the session registry changes only in a step in which clone_session
\* returns successfully (the new id is added), in which register_session
\* returns (the given id is added), or in which close_session, called by the
\* user or by shutdown, reads the done of its request (that id is removed).
\* So no step of a call that fails, a timeout included, changes it: a call
\* that returns an error leaves the registry as it was when it began.
C38_ErrorsKeepRegistry ==
    [][sessions' # sessions
         => \/ /\ ReturnsOk("clone_session")
               /\ sessions' = sessions \cup {result'.value.session}
            \/ /\ ReturnsOk("register_session")
               /\ sessions' = sessions \cup {result'.session}
            \/ /\ ReturnsOk("close_session")
               /\ sessions' = sessions \ {result'.session}
               /\ \E i \in 1..Len(rx') : rx'[i].id = result'.id /\ IsDone(rx'[i])
            \/ /\ cur.op = "shutdown" /\ pc = "read"
               /\ sessions' = sessions \ {cur.session}]_vars

\* C38: close_session has timed out and its session is still tracked.
C38_Witness ==
    /\ pc = "idle" /\ result.op = "close_session" /\ result.kind = "Timeout"
    /\ result.session \in sessions

\* The bytes that a step of the client takes from the front of the stream,
\* which is the buffer followed by the bytes not yet read.
TakenBytes == Len(buffer \o wire) - Len(buffer' \o wire')
TakenPrefix == DecodeAll(Slice(buffer \o wire, 0, TakenBytes))

\* C39: every byte that a socket read returns is appended to the buffer, and
\* only the bytes of a response that read_response returns are removed from
\* it: in every step of the client, a timeout or a failing one included, the
\* buffer and the bytes not yet read are what they were without a prefix,
\* and that prefix is exactly the encodings of the responses the step has
\* given to the call.  No read is refused for the size of the buffer.
C39_BufferKeepsFraming ==
    /\ [](result.msg # "Response would exceed maximum size")
    /\ [][ClientStep =>
            /\ TakenBytes >= 0
            /\ buffer' \o wire' = Slice(buffer \o wire, TakenBytes, Len(buffer \o wire))
            /\ TakenPrefix.ok
            /\ rx' = (IF SameCall THEN rx ELSE <<>>) \o TakenPrefix.resps
            /\ ReadStep => Len(buffer') <= Len(buffer) + BytesRead]_vars

\* C39: an eval has timed out after it had read a part of a response, and
\* the part is in the buffer.
C39_Witness ==
    /\ pc = "idle" /\ result.op = "eval" /\ result.kind = "Timeout"
    /\ buffer # <<>>
    /\ decode_response(buffer).err.msg \in IncompleteMsgs

\* No command is queued or executing on the worker of the connection, and
\* no function of the FFI layer is in progress.
WorkerQuiet ==
    /\ FOCUS \in connections
    /\ caller = NoCaller /\ threads = EmptyBag
    /\ commands = <<>> /\ wcmd = NoCommand
    /\ WorkerReady
\* The sessions that the handles of the registry entry resolve to.
EntrySessions == {e.session : e \in entry_sessions}

\* C40: whenever no command is queued or executing on the worker, the
\* sessions of the registry entry are the sessions that the engine tracks,
\* so that the engine knows every session that a handle resolves to; this
\* holds also after nrepl_clone_session or nrepl_close_session has timed out.
C40_EntryMatchesEngine ==
    [](WorkerQuiet => EntrySessions = sessions)

====
